---- MODULE Spec2Model ----
(***************************************************************************)
(* Verification model of the freud analysis toolkit:                       *)
(*   - the Compute lifecycle guard            (freud/common.pyx)           *)
(*   - the link-cell list and its cursor      (cpp/locality/LinkCell.h)    *)
(*   - the SingleCell3D particle-type manager (freud/kspace.pyx)           *)
(*   - the FTbase form-factor family          (freud/kspace.pyx)           *)
(*   - the SFactor3DPoints structure factor   (freud/kspace.pyx)           *)
(*   - the AnalyzeSFactor3D peak finder       (freud/kspace.pyx)           *)
(*   - the Debye static structure factor      (StaticStructureFactorDebye) *)
(*   - the Gaussian density grid              (GaussianDensity.cc)         *)
(*   - the lattice-point enumeration          (freud/kspace.pyx)           *)
(*   - the GaussianSpot sub-grid              (freud/kspace.pyx)           *)
(* Each component has its own specification; the variables of the other    *)
(* components stay at their idle value.                                    *)
(***************************************************************************)
EXTENDS Integers, Sequences, FiniteSets, TLC

\* ------------------------------------------------------------------------
\* Bounds of the model
\* ------------------------------------------------------------------------
\* calls made on one Compute object
MaxOps == 5
\* largest number of particles handed to computeCellList
MaxNp == 2
\* largest number of cells W*H*D of a cell-list grid
MaxCells == 4
\* largest number of cells on one axis of a grid in the neighbour-table check
MaxDim == 4
\* calls of nextPy made after the end-of-sequence signal was raised
MaxPast == 1
\* calls made on one SingleCell3D object
MaxCellOps == 5
\* calls made on one form-factor object
MaxFTOps == 3
\* calls made on one SFactor3DPoints object
MaxSFOps == 4
\* largest g of an SFactor3DPoints grid
MaxG == 1
\* points handed to one SFactor3DPoints.compute
MaxPts == 2
\* calls made on StaticStructureFactorDebye, the constructor included
MaxDBOps == 4
\* largest number of bins of a StaticStructureFactorDebye
MaxBins == 2
\* frames accumulated into one StaticStructureFactorDebye
MaxFrames == 2
\* largest g of the grid side 2g+1 of an AnalyzeSFactor3D
MaxAG == 1
\* largest width of a GaussianDensity grid
MaxWidth == 3
\* largest number of points handed to GaussianDensity::compute
MaxGDPts == 2
\* the amplitude A of the Gaussian of GaussianDensity, in the unit of the
\* density values
GaussianPeak == 65536
\* largest edge of a lattice cell and largest shear of its second vector
MaxEdge == 2
MaxShear == 3
\* largest half extent K of an aligned-box constraint
MaxK == 2
\* lattice indices -MaxIndex .. MaxIndex are looked at for vectors that satisfy
\* a constraint
MaxIndex == 4
\* largest sigma and largest grid spacing of a GaussianSpot
MaxSigma == 2
MaxSpacing == 2
\* largest number of grid points on an axis of a GaussianSpot image
MaxShape == 3

\* ------------------------------------------------------------------------
\* State
\* ------------------------------------------------------------------------
VARIABLES
    called_compute,   \* Compute._called_compute
    cmp_hist,         \* history of calls made on the Compute object
    cmp_out           \* outcome of the last call on the Compute object

computeVars == <<called_compute, cmp_hist, cmp_out>>

VARIABLES
    m_dim,            \* LinkCell::m_cell_index as <<W, H, D>>
    m_is2D,           \* LinkCell::m_box.is2D()
    m_Np,             \* LinkCell::m_Np
    m_cell_list,      \* LinkCell::m_cell_list (NullList before the first build)
    m_cell_neighbors, \* LinkCell::m_cell_neighbors
    it,               \* the live IteratorLinkCell (NoCursor when there is none)
    it_log,           \* the next()/nextPy() calls made on the live cursor
    sw_cell,          \* cells 0 .. sw_cell-1 have been walked to completion
    sw_yield,         \* particle indices those walks returned, in order
    nb_result         \* last value returned by getCellNeighbors

linkVars == <<m_dim, m_is2D, m_Np, m_cell_list, m_cell_neighbors,
              it, it_log, sw_cell, sw_yield, nb_result>>

VARIABLES
    bases_valid,        \* SingleCell3D.bases_valid
    K_constraint_valid, \* SingleCell3D.K_constraint_valid
    Kpoints_valid,      \* SingleCell3D.Kpoints_valid
    FT_valid,           \* SingleCell3D.FT_valid
    ptype_name,         \* SingleCell3D.ptype_name
    ptype_position,     \* SingleCell3D.ptype_position (the arrays' shapes)
    ptype_orientation,  \* SingleCell3D.ptype_orientation (the arrays' shapes)
    ptype_ff,           \* SingleCell3D.ptype_ff
    param_keys,         \* keys of SingleCell3D.ptype_param, in insertion order
    ptype_param,        \* SingleCell3D.ptype_param, the list of each key
    active_types,       \* SingleCell3D.active_types
    sc_scale,           \* SingleCell3D.scale
    sc_ndiv,            \* SingleCell3D.ndiv
    sc_dK,              \* SingleCell3D.dK
    sc_box,             \* SingleCell3D.boxMatrix (edge of a cubic cell)
    bases,              \* SingleCell3D.a1..a3, g1..g3 (the scaled cell edge)
    K_constraint,       \* SingleCell3D.K_constraint
    Kpoints,            \* SingleCell3D.Kpoints
    FT,                 \* SingleCell3D.FT
    cell_out,           \* the last call on the SingleCell3D object and its outcome
    cell_ops            \* number of calls made on the SingleCell3D object

cellVars == <<bases_valid, K_constraint_valid, Kpoints_valid, FT_valid,
              ptype_name, ptype_position, ptype_orientation, ptype_ff,
              param_keys, ptype_param, active_types, sc_scale, sc_ndiv, sc_dK,
              sc_box, bases, K_constraint, Kpoints, FT, cell_out, cell_ops>>

VARIABLES
    ft_obj,     \* one form-factor object (FTbase or a subclass)
    ft_out,     \* the last call on the object, its arguments and its outcome
    ft_ops      \* number of calls made on the object

ftVars == <<ft_obj, ft_out, ft_ops>>

VARIABLES
    sf_g,           \* SFactor3DPoints: g, the grid has 2 * g + 1 points per axis
    sf_s_complex,   \* SFactor3DPoints.s_complex
    sf_out,         \* the last call on the SFactor3DPoints object and its outcome
    sf_ops          \* number of calls made on the SFactor3DPoints object

sfVars == <<sf_g, sf_s_complex, sf_out, sf_ops>>

VARIABLES
    db_made,              \* a StaticStructureFactorDebye object exists
    db_axis,              \* its histogram axis: bins, k_min, k_max
    db_local,             \* m_local_histograms, one histogram per thread
    db_frame_counter,     \* m_frame_counter
    db_reduce,            \* m_reduce
    db_min_valid_k,       \* m_min_valid_k
    db_structure_factor,  \* m_structure_factor
    db_frames,            \* history: the per-bin S_k of every accumulated frame
    db_out,               \* the last call, its arguments and its outcome
    db_ops                \* number of calls made

dbVars == <<db_made, db_axis, db_local, db_frame_counter, db_reduce,
            db_min_valid_k, db_structure_factor, db_frames, db_out, db_ops>>

\* AnalyzeSFactor3D: the wrapped grid self.S (indexed by 0-based triples),
\* self.g, and the last call with what it returned
VARIABLES an_S, an_g, an_out
anVars == <<an_S, an_g, an_out>>

VARIABLES
    gd_width,     \* GaussianDensity::m_width.x (the grid is width x 1 x 1)
    gd_r2,        \* m_r_max, in halves of the grid spacing
    gd_periodic,  \* m_box.getPeriodic().x
    gd_points,    \* the points of the query, each by the cell it lies in
    gd_taken,     \* indices of the points handed to a worker thread so far
    gd_work,      \* per thread: the point it is at and the value of loop index i
    gd_local,     \* local_bin_counts, one grid per thread
    gd_density,   \* m_density_array
    gd_store,     \* the last store into a local grid: loop index and array index
    gd_reduced    \* reduceInto has run

gdVars == <<gd_width, gd_r2, gd_periodic, gd_points, gd_taken, gd_work,
            gd_local, gd_density, gd_store, gd_reduced>>

VARIABLES
    lat_v,        \* the lattice vectors handed to constrainedLatticePoints
    lat_c,        \* the constraint handed to it
    lat_points,   \* the vectors it returned
    lat_done      \* the call has been made

latVars == <<lat_v, lat_c, lat_points, lat_done>>

VARIABLES
    sp_sigma,       \* GaussianSpot.sigma
    sp_d,           \* <<dx, dy>>, the grid spacings
    sp_shape,       \* the number of grid points on each axis
    sp_xy,          \* the centre handed to the last set_xy, in half spacings
    sp_half,        \* <<nx, ny>> of the last set_xy
    sp_sub,         \* the index pairs of the sub-grid of the last set_xy
    sp_gridPoints   \* GaussianSpot.gridPoints

spVars == <<sp_sigma, sp_d, sp_shape, sp_xy, sp_half, sp_sub, sp_gridPoints>>

vars == <<computeVars, linkVars, cellVars, ftVars, sfVars, dbVars, anVars, gdVars, latVars, spVars>>

\* ========================================================================
\* Compute lifecycle guard (freud/common.pyx)
\* ========================================================================
NotComputedError == "AttributeError: Property not computed. Call compute first."

\* Compute.__cinit__
ComputeInit ==
    /\ called_compute = FALSE
    /\ cmp_hist = <<>>
    /\ cmp_out = "constructed"

ComputeIdle == ComputeInit

\* the Compute object's calls leave the other components alone
ComputeFrame == UNCHANGED <<linkVars, cellVars, ftVars, sfVars, dbVars, anVars, gdVars, latVars, spVars>>

\* value of the flag after the wrapper of Compute._compute has run a compute
\* function that raised (raises = TRUE) or returned
compute_wrapper_mut(flag, raises) == TRUE

compute_wrapper(flag, raises) == IF raises THEN flag ELSE TRUE

\* value of the flag after the wrapper of Compute._reset (the flag is cleared
\* before the wrapped function runs, so the result is the same if it raises)
reset_wrapper_mut(flag, raises) == IF raises THEN flag ELSE FALSE

reset_wrapper(flag, raises) == FALSE

\* outcome of the wrapper of Compute._computed_property / _computed_method
guard_wrapper_mut(flag) == "returned"

guard_wrapper(flag) == IF ~flag THEN NotComputedError ELSE "returned"

\* a call of a method decorated with @Compute._compute
Compute_compute(raises) ==
    /\ Len(cmp_hist) < MaxOps
    /\ ComputeFrame
    /\ called_compute' = compute_wrapper(called_compute, raises)
    /\ cmp_out' = IF raises THEN "raised" ELSE "returned"
    /\ cmp_hist' = Append(cmp_hist, [op |-> "compute", out |-> cmp_out'])

\* a call of a method decorated with @Compute._reset
Compute_reset(raises) ==
    /\ Len(cmp_hist) < MaxOps
    /\ ComputeFrame
    /\ called_compute' = reset_wrapper(called_compute, raises)
    /\ cmp_out' = IF raises THEN "raised" ELSE "returned"
    /\ cmp_hist' = Append(cmp_hist, [op |-> "reset", out |-> cmp_out'])

\* a read of a property decorated with @Compute._computed_property
Compute_computed_property ==
    /\ Len(cmp_hist) < MaxOps
    /\ ComputeFrame
    /\ cmp_out' = guard_wrapper(called_compute)
    /\ cmp_hist' = Append(cmp_hist, [op |-> "property", out |-> cmp_out'])
    /\ UNCHANGED called_compute

\* a call of a method decorated with @Compute._computed_method
Compute_computed_method ==
    /\ Len(cmp_hist) < MaxOps
    /\ ComputeFrame
    /\ cmp_out' = guard_wrapper(called_compute)
    /\ cmp_hist' = Append(cmp_hist, [op |-> "method", out |-> cmp_out'])
    /\ UNCHANGED called_compute

NextCompute ==
    \/ \E raises \in BOOLEAN : Compute_compute(raises)
    \/ \E raises \in BOOLEAN : Compute_reset(raises)
    \/ Compute_computed_property
    \/ Compute_computed_method

\* ========================================================================
\* Link-cell list (cpp/locality/LinkCell.h)
\* ========================================================================
\* 0xffffffff, written as the 32-bit two's complement number it is the bit
\* pattern of: no particle index and no slot index has this value
LINK_CELL_TERMINATOR == -1

\* positions are given by their fractional box coordinates makeunit(p), in
\* units of 1/PosDen on each axis; PosDen/PosDen is the value 1.0 that the
\* single-precision product alpha * W rounds up to next to the upper box face
PosDen == 2

Positions == (0 .. PosDen) \X (0 .. PosDen) \X (0 .. PosDen)

\* Index3D::getNumElements
getNumCells(dim) == dim[1] * dim[2] * dim[3]

\* Index3D::operator()(i, j, k)
Index3D(dim, i, j, k) == (k * dim[2] + j) * dim[1] + i

\* LinkCell::getCellCoord: floorf(alpha * N) % N on each axis
getCellCoord_mut(dim, p) ==
    << (p[1] * dim[1]) \div PosDen,
       (p[2] * dim[2]) \div PosDen,
       (p[3] * dim[3]) \div PosDen >>

getCellCoord(dim, p) ==
    << ((p[1] * dim[1]) \div PosDen) % dim[1],
       ((p[2] * dim[2]) \div PosDen) % dim[2],
       ((p[3] * dim[3]) \div PosDen) % dim[3] >>

\* LinkCell::getCell
getCell(dim, p) ==
    LET c == getCellCoord(dim, p) IN Index3D(dim, c[1], c[2], c[3])

\* LinkCell::computeCellList, the insertion of particles i .. Np-1 into list:
\* the particle's slot takes the previous head, the head slot takes i
RECURSIVE InsertFrom(_, _, _, _, _)
InsertFrom(list, dim, points, Np, i) ==
    IF i >= Np THEN list
    ELSE LET head == Np + getCell(dim, points[i + 1])
             spliced == [list EXCEPT ![i] = list[head], ![head] = i]
         IN InsertFrom(spliced, dim, points, Np, i + 1)

\* LinkCell::computeCellList: the array of Np + Nc slots after the build
computeCellList_mut(dim, points) ==
    LET Np == Len(points)
        empty == [x \in 0 .. (Np + getNumCells(dim) - 1) |-> 0]
    IN InsertFrom(empty, dim, points, Np, 0)

computeCellList(dim, points) ==
    LET Np == Len(points)
        empty == [x \in 0 .. (Np + getNumCells(dim) - 1) |-> LINK_CELL_TERMINATOR]
    IN InsertFrom(empty, dim, points, Np, 0)

\* (a + n) % n for an offset a >= -1: the periodic image of a cell coordinate
WrapCoord(a, n) == (n + a) % n

\* LinkCell::computeCellNeighbors, the neighbour list of cell (i, j, k): the
\* 27 offsets of a 3D grid, the 9 in-plane ones of a 2D grid, each wrapped
NeighborsOf(dim, is2D, i, j, k) ==
    LET dks == IF is2D THEN <<0>> ELSE <<-1, 0, 1>>
        dd  == <<-1, 0, 1>>
        n   == Len(dks) * 9
        at(x) == LET dk == dks[(x \div 9) + 1]
                     dj == dd[((x \div 3) % 3) + 1]
                     di == dd[(x % 3) + 1]
                 IN Index3D(dim, WrapCoord(i + di, dim[1]),
                                 WrapCoord(j + dj, dim[2]),
                                 WrapCoord(k + dk, dim[3]))
    IN [x \in 1 .. n |-> at(x - 1)]

\* LinkCell::computeCellNeighbors: the table over all cells
computeCellNeighbors(dim, is2D) ==
    [c \in 0 .. (getNumCells(dim) - 1) |->
        NeighborsOf(dim, is2D, c % dim[1], (c \div dim[1]) % dim[2],
                    c \div (dim[1] * dim[2]))]

\* LinkCell::getCellNeighbors
getCellNeighbors_mut(table, cell) == table[(cell + 1) % Cardinality(DOMAIN table)]

getCellNeighbors(table, cell) == table[cell]

\* a null m_cell_list: the array of a built list has at least one slot
NullList == <<>>

\* no cursor has been made yet
NoCursor ==
    [cell_list |-> NullList, Np |-> 0, Nc |-> 0, cur_idx |-> 0, cell |-> 0,
     mode |-> "none"]

\* IteratorLinkCell::IteratorLinkCell
IteratorLinkCell_mut(cell_list, Np, Nc, cell, mode) ==
    [cell_list |-> cell_list, Np |-> Np, Nc |-> Nc, cur_idx |-> cell,
     cell |-> cell, mode |-> mode]

IteratorLinkCell(cell_list, Np, Nc, cell, mode) ==
    [cell_list |-> cell_list, Np |-> Np, Nc |-> Nc, cur_idx |-> Np + cell,
     cell |-> cell, mode |-> mode]

\* IteratorLinkCell::atEnd
atEnd(c) == c.cur_idx = LINK_CELL_TERMINATOR

\* the values m_cell_list[idx] can evaluate to: the slot's content inside the
\* array; outside it the read is undefined and may abort or give any value,
\* of which the model takes a particle index, an index past the array and the
\* terminator
JunkValues(c) == {0, c.Np + c.Nc, LINK_CELL_TERMINATOR}

ReadCellList(c, idx) ==
    IF idx \in DOMAIN c.cell_list
    THEN {[abort |-> FALSE, val |-> c.cell_list[idx]]}
    ELSE {[abort |-> FALSE, val |-> v] : v \in JunkValues(c)}
         \cup {[abort |-> TRUE, val |-> 0]}

\* IteratorLinkCell::next / nextPy: m_cur_idx = m_cell_list[m_cur_idx], with
\* r the outcome of the array read
IteratorLinkCell_next_mut(c, r) == [c EXCEPT !.cur_idx = LINK_CELL_TERMINATOR]

IteratorLinkCell_next(c, r) == [c EXCEPT !.cur_idx = r.val]

\* the grids of the cell-list specification and of the neighbour-table one
Grids(maxAxis, maxCells) ==
    { g \in ((1 .. maxAxis) \X (1 .. maxAxis) \X (1 .. maxAxis)) \X BOOLEAN :
        /\ g[1][1] * g[1][2] * g[1][3] <= maxCells
        /\ g[2] => g[1][3] = 1 }

\* LinkCell::LinkCell: the grid and its neighbour table, no cell list yet
LinkCell_ctor(dim, is2D) ==
    /\ m_dim = dim
    /\ m_is2D = is2D
    /\ m_Np = 0
    /\ m_cell_list = NullList
    /\ m_cell_neighbors = computeCellNeighbors(dim, is2D)
    /\ it = NoCursor
    /\ it_log = <<>>
    /\ sw_cell = 0
    /\ sw_yield = <<>>
    /\ nb_result = [cell |-> 0, list |-> <<>>]

\* the cell-list specification takes 3D boxes: the 2D flag only changes the
\* neighbour table, which SpecNbr covers for both kinds of box
LinkInit ==
    \E g \in Grids(MaxCells, MaxCells) : ~g[2] /\ LinkCell_ctor(g[1], g[2])

LinkIdle == LinkCell_ctor(<<1, 1, 1>>, FALSE)

LinkFrame == UNCHANGED <<computeVars, cellVars, ftVars, sfVars, dbVars, anVars, gdVars, latVars, spVars>>

\* the point arrays handed to computeCellList
PointSets == UNION { [1 .. n -> Positions] : n \in 0 .. MaxNp }

\* LinkCell::computeCellList(points, Np); the model builds one list per
\* LinkCell object (a rebuild allocates a fresh array for the new points)
ComputeCellList ==
    /\ m_cell_list = NullList
    /\ \E points \in PointSets :
        /\ m_Np' = Len(points)
        /\ m_cell_list' = computeCellList(m_dim, points)
    /\ UNCHANGED <<m_dim, m_is2D, m_cell_neighbors, it, it_log, sw_cell,
                   sw_yield, nb_result>>
    /\ LinkFrame

\* LinkCell::itercell(cell), for the documented C++ loop (mode "cpp") or for
\* the Python iteration protocol (mode "py"); cells are walked in index order
Itercell(cell, mode) ==
    /\ m_cell_list # NullList
    /\ m_Np > 0
    /\ cell < getNumCells(m_dim)
    /\ cell = sw_cell
    /\ \/ it.mode = "none"
       \/ /\ it.mode # "none" /\ it_log # <<>>
          /\ it_log[Len(it_log)].out \in {"end", "StopIteration"}
    /\ it' = IteratorLinkCell(m_cell_list, m_Np, getNumCells(m_dim), cell, mode)
    /\ it_log' = <<>>
    /\ UNCHANGED <<m_dim, m_is2D, m_Np, m_cell_list, m_cell_neighbors,
                   sw_cell, sw_yield, nb_result>>
    /\ LinkFrame

\* the particle indices the calls of a log returned
RECURSIVE Yielded(_)
Yielded(log) ==
    IF log = <<>> THEN <<>>
    ELSE LET rest == Yielded(SubSeq(log, 1, Len(log) - 1))
             last == log[Len(log)]
         IN IF last.out = "value" THEN Append(rest, last.val) ELSE rest

\* a walk that has just ended for the first time completes the sweep's cell
SweepStep(c, log) ==
    IF /\ c.cell = sw_cell
       /\ log[Len(log)].out \in {"end", "StopIteration"}
       /\ \A n \in 1 .. (Len(log) - 1) : log[n].out = "value"
    THEN /\ sw_cell' = sw_cell + 1
         /\ sw_yield' = sw_yield \o Yielded(log)
    ELSE UNCHANGED <<sw_cell, sw_yield>>

\* IteratorLinkCell::next, as the documented loop calls it: first after
\* itercell, then again only while atEnd() is false
It_next ==
    /\ it.mode = "cpp"
    /\ ~atEnd(it)
    /\ \E r \in ReadCellList(it, it.cur_idx) :
        /\ ~r.abort
        /\ it' = IteratorLinkCell_next(it, r)
        /\ it_log' = Append(it_log,
              [read |-> it.cur_idx, val |-> r.val,
               out |-> IF atEnd(it') THEN "end" ELSE "value"])
        /\ SweepStep(it, it_log')
    /\ UNCHANGED <<m_dim, m_is2D, m_Np, m_cell_list, m_cell_neighbors, nb_result>>
    /\ LinkFrame

\* number of nextPy calls of a log made after StopIteration was first raised
PastEnd(log) ==
    Cardinality({n \in 1 .. Len(log) :
                    \E m \in 1 .. (n - 1) : log[m].out = "StopIteration"})

\* IteratorLinkCell::nextPy, called by the Python iteration protocol
It_nextPy ==
    /\ it.mode = "py"
    /\ PastEnd(it_log) < MaxPast
    /\ it_log # <<>> => it_log[Len(it_log)].out # "abort"
    /\ \E r \in ReadCellList(it, it.cur_idx) :
        /\ it' = IF r.abort THEN it ELSE IteratorLinkCell_next(it, r)
        /\ it_log' = Append(it_log,
              [read |-> it.cur_idx, val |-> r.val,
               out |-> IF r.abort THEN "abort"
                       ELSE IF atEnd(it') THEN "StopIteration" ELSE "value"])
        /\ SweepStep(it, it_log')
    /\ UNCHANGED <<m_dim, m_is2D, m_Np, m_cell_list, m_cell_neighbors, nb_result>>
    /\ LinkFrame

\* LinkCell::getCellNeighbors(cell)
GetCellNeighbors(cell) ==
    /\ cell < getNumCells(m_dim)
    /\ nb_result' = [cell |-> cell, list |-> getCellNeighbors(m_cell_neighbors, cell)]
    /\ UNCHANGED <<m_dim, m_is2D, m_Np, m_cell_list, m_cell_neighbors,
                   it, it_log, sw_cell, sw_yield>>
    /\ LinkFrame

NextLink ==
    \/ ComputeCellList
    \/ \E cell \in 0 .. (MaxCells - 1), mode \in {"cpp", "py"} : Itercell(cell, mode)
    \/ It_next
    \/ It_nextPy

\* ========================================================================
\* SingleCell3D, FTfactory and the FTdelta objects it creates
\* (freud/kspace.pyx)
\* ========================================================================
\* Python's None where a number is expected (ptype_param lists, FTbase.S).
NoneVal == -1

\* The value numpy makes of None: np.float32(None) is nan.
NaN == -2

\* Lengths are measured in units in which 2*pi is TwoPi; wave vectors are
\* integer vectors in the reciprocal unit.
TwoPi == 8

\* the elements of a list
SeqRange(q) == {q[n] : n \in 1 .. Len(q)}

TypeNames == {"A", "B"}
ParamNames == {"density", "bogus"}
ParamValues == {0, 1}
FormFactorNames == {"Delta", "Sphere"}
ScaleArgs == {2}
BoxArgs == {2}
NdivArgs == {1}
DKArgs == {5}
\* shapes of the (position, orientation) arrays handed to set_rq
RqArgs == { <<<<1, 3>>, <<1, 4>>>>, <<<<1, 2>>, <<1, 4>>>>, <<<<2, 3>>, <<1, 4>>>> }

Dot(u, v) == u[1] * v[1] + u[2] * v[2] + u[3] * v[3]

Cross(u, v) == << u[2] * v[3] - u[3] * v[2],
                  u[3] * v[1] - u[1] * v[3],
                  u[1] * v[2] - u[2] * v[1] >>

Scaled(c, v) == << c * v[1], c * v[2], c * v[3] >>

Combo(h, k, l, v1, v2, v3) ==
    << h * v1[1] + k * v2[1] + l * v3[1],
       h * v1[2] + k * v2[2] + l * v3[2],
       h * v1[3] + k * v2[3] + l * v3[3] >>

\* v / d componentwise, for the exact quotients of the cells modelled
DivVec(v, d) == << v[1] \div d, v[2] \div d, v[3] \div d >>

ISqrt(n) == CHOOSE r \in 0 .. n : r * r <= n /\ (r + 1) * (r + 1) > n

Abs(x) == IF x < 0 THEN -x ELSE x

\* reciprocalLattice3D(a1, a2, a3)
reciprocalLattice3D(a1, a2, a3) ==
    LET a2xa3 == Cross(a2, a3)
        a3xa1 == Cross(a3, a1)
        a1xa2 == Cross(a1, a2)
    IN  << DivVec(Scaled(TwoPi, a2xa3), Dot(a1, a2xa3)),
           DivVec(Scaled(TwoPi, a3xa1), Dot(a2, a3xa1)),
           DivVec(Scaled(TwoPi, a1xa2), Dot(a3, a1xa2)) >>

\* ------------------------------------------------------------------------
\* np.float32 arithmetic.  A positive float32 is kept as [m, e] and stands
\* for m * 2^e with 2^23 <= m < 2^24; every operation rounds its exact
\* result to the nearest such number, a tie to the even m.
\* ------------------------------------------------------------------------
\* np.float32(k) for a whole number 0 < k < 2^24
F32OfInt(k) ==
    LET s == CHOOSE s \in 0 .. 23 : 2 ^ (23 - s) <= k /\ k < 2 ^ (24 - s)
    IN  [m |-> k * 2 ^ s, e |-> -s]

\* m * 2^e with 2^23 <= m < 2^24 and the part cut off below m given by how
\* it compares with half a unit of m: -1 below, 0 equal, 1 above
F32Round(m, e, half) ==
    LET up == half > 0 \/ (half = 0 /\ m % 2 = 1)
    IN  IF ~up THEN [m |-> m, e |-> e]
        ELSE IF m + 1 = 2 ^ 24 THEN [m |-> 2 ^ 23, e |-> e + 1]
        ELSE [m |-> m + 1, e |-> e]

Sign(x) == IF x < 0 THEN -1 ELSE IF x = 0 THEN 0 ELSE 1

\* x * y: the 48-bit product of the two m is formed from halves of 12 bits
F32Mul(x, y) ==
    LET a1  == x.m \div 4096
        a0  == x.m % 4096
        b1  == y.m \div 4096
        b0  == y.m % 4096
        mid == a1 * b0 + a0 * b1
        low == (mid % 4096) * 4096 + a0 * b0
        H   == a1 * b1 + (mid \div 4096) + (low \div (2 ^ 24))
        L   == low % (2 ^ 24)
    IN  IF H >= 2 ^ 23
        THEN F32Round(H, x.e + y.e + 24, Sign(L - 2 ^ 23))
        ELSE F32Round(2 * H + (L \div (2 ^ 23)), x.e + y.e + 23,
                      Sign(2 * (L % (2 ^ 23)) - 2 ^ 23))

\* t more bits of the quotient q with remainder r of a division by d
RECURSIVE DivBits(_, _, _, _)
DivBits(q, r, d, t) ==
    IF t = 0 THEN [q |-> q, r |-> r]
    ELSE IF 2 * r >= d THEN DivBits(2 * q + 1, 2 * r - d, d, t - 1)
    ELSE DivBits(2 * q, 2 * r, d, t - 1)

\* x / y
F32Div(x, y) ==
    LET t == IF x.m >= y.m THEN 23 ELSE 24
        d == DivBits(x.m \div y.m, x.m % y.m, y.m, t)
    IN  F32Round(d.q, x.e - y.e - t, Sign(2 * d.r - y.m))

\* the whole part r of the square root of n * 4^t and what is left, n - r * r
RECURSIVE SqrtBits(_, _)
SqrtBits(n, t) ==
    IF n = 0 THEN [r |-> 0, rem |-> 0]
    ELSE LET s    == IF t > 0 THEN SqrtBits(n, t - 1) ELSE SqrtBits(n \div 4, 0)
             rem  == 4 * s.rem + (IF t > 0 THEN 0 ELSE n % 4)
             step == 4 * s.r + 1
         IN  IF rem >= step THEN [r |-> 2 * s.r + 1, rem |-> rem - step]
             ELSE [r |-> 2 * s.r, rem |-> rem]

\* np.sqrt(x)
F32Sqrt(x) ==
    LET odd == x.e % 2 = 1
        n   == IF odd THEN 2 * x.m ELSE x.m
        t   == IF odd THEN 11 ELSE 12
        s   == SqrtBits(n, t)
    IN  F32Round(s.r, ((IF odd THEN x.e - 1 ELSE x.e) \div 2) - t,
                 IF s.rem > s.r THEN 1 ELSE -1)

\* int(x + 1) for a float32 x and the Python int 1: the sum of a float32
\* scalar and a Python int is made in float64, where it is exact, and int()
\* cuts the fraction off
IntOfPlusOne(x) ==
    IF x.e >= 0 THEN x.m * 2 ^ x.e + 1
    ELSE IF x.e < -24 THEN 1
    ELSE x.m \div (2 ^ (-x.e)) + 1

\* n <= x for a whole number n >= 0
IntLeF32(n, x) ==
    IF x.e >= 0 THEN n <= x.m * 2 ^ x.e
    ELSE IF x.e < -24 THEN n <= 0
    ELSE n <= x.m \div (2 ^ (-x.e))

\* np.float32(np.sqrt(2)) = 11863283 * 2^-23
F32Sqrt2 == [m |-> 11863283, e |-> -23]

\* AlignedBoxConstraint(R, -K, K, -K, K, -epsilon, epsilon) with a float32
\* R and epsilon = |dK / 2|: self.radius = R, self.R2 = R * R (rounded), the
\* extents kept as K and 2 * epsilon
AlignedBoxConstraint(R, K, dK) ==
    [radius |-> R, R2 |-> F32Mul(R, R), xpos |-> K, ypos |-> K, zpos2 |-> Abs(dK)]

\* R = K * np.float32(np.sqrt(2)) of update_K_constraint
RadiusOf(K) == F32Mul(F32OfInt(K), F32Sqrt2)

\* AlignedBoxConstraint.satisfies(v)
satisfies(c, v) ==
    /\ IntLeF32(Dot(v, v), c.R2)
    /\ v[1] >= -c.xpos /\ v[1] <= c.xpos
    /\ v[2] >= -c.ypos /\ v[2] <= c.ypos
    /\ 2 * v[3] >= -c.zpos2 /\ 2 * v[3] <= c.zpos2

Signs == {-1, 0, 1}

\* the squared length of the shortest of v1 + v2 + v3 and the 26 nonzero
\* combinations with coefficients in {-1, 0, 1}
ShortestG2(v1, v2, v3) ==
    LET mags == { Dot(Combo(h, k, l, v1, v2, v3), Combo(h, k, l, v1, v2, v3)) :
                    <<h, k, l>> \in (Signs \X Signs \X Signs) \ {<<0, 0, 0>>} }
    IN  CHOOSE m \in mags : \A o \in mags : m <= o

\* constrainedLatticePoints(v1, v2, v3, constraint) for float32 vectors:
\* G = np.sqrt(G2), nmax = int((R / G) + 1)
constrainedLatticePoints(v1, v2, v3, c) ==
    LET G2   == ShortestG2(v1, v2, v3)
        nmax == IntOfPlusOne(F32Div(c.radius, F32Sqrt(F32OfInt(G2))))
        rng  == (-nmax) .. nmax
    IN  { Combo(h, k, l, v1, v2, v3) : <<h, k, l>> \in
            { t \in rng \X rng \X rng :
                satisfies(c, Combo(t[1], t[2], t[3], v1, v2, v3)) } }

\* FTbase.__init__: K = [[0, 0, 0]]
KDefault == { <<0, 0, 0>> }

\* np.float32(value): None becomes nan, an integer beyond 2^24 is rounded
\* to the nearest representable value (ties to the even mantissa)
Float32(value) ==
    IF value = NoneVal THEN NaN
    ELSE IF value <= 2^24 THEN value
    ELSE LET lo == (value \div 2) * 2
         IN  IF value = lo THEN value
             ELSE IF (lo \div 2) % 2 = 0 THEN lo ELSE lo + 2

\* a slot of ptype_ff holding None
NoFF == [kind |-> "None", scale |-> 0, density |-> 0, radius |-> NoneVal,
         hull |-> FALSE, K |-> {}, position |-> <<>>, orientation |-> <<>>,
         S |-> NoneVal, native_position |-> <<>>, native_orientation |-> <<>>]

\* FTbase.__init__; arrays are kept by shape, the radius is counted in
\* halves, hull tells whether the attribute self.hull exists
FTbase_init(kind) ==
    [kind |-> kind, scale |-> 1, density |-> 1, radius |-> NoneVal,
     hull |-> FALSE, K |-> KDefault, position |-> <<1, 3>>,
     orientation |-> <<1, 4>>, S |-> NoneVal,
     native_position |-> <<>>, native_orientation |-> <<>>]

\* FTbase()
FTbase == FTbase_init("FTbase")

\* FTdelta()
FTdelta == FTbase_init("FTdelta")

\* FTsphere(): set_radius(0.5)
FTsphere == [FTbase_init("FTsphere") EXCEPT !.radius = 1]

\* FTpolyhedron(): registers 'radius', assigns no self.hull
FTpolyhedron == FTbase_init("FTpolyhedron")

\* FTconvexPolyhedron(hull): self.hull = hull, a hull of in-sphere radius 0.5
FTconvexPolyhedron ==
    [FTbase_init("FTconvexPolyhedron") EXCEPT !.hull = TRUE, !.radius = 1]

\* FTfactory.name_list
name_list == <<"Delta">>

\* keys of set_param_map and of get_param_map
set_param_map(kind) ==
    IF kind \in {"FTsphere", "FTpolyhedron", "FTconvexPolyhedron"}
    THEN {"scale", "density", "radius"}
    ELSE {"scale", "density"}

\* FTbase.get_params()
get_params(obj) == set_param_map(obj.kind)

\* set_scale of FTbase and FTdelta
set_scale(obj, scale) == [obj EXCEPT !.scale = Float32(scale)]

\* set_density of FTbase, FTdelta and FTpolyhedron: np.complex64(density)
set_density(obj, density) == [obj EXCEPT !.density = Float32(density)]

\* set_K of FTbase, FTdelta and FTpolyhedron
set_K(obj, K) == [obj EXCEPT !.K = K]

\* FTbase.set_rq: both arrays are stored first; a rank-1 array is resized to
\* one row; any other rank but 2 prints a message and returns None
FTbase_set_rq(obj, r, q) ==
    LET pos == IF Len(r) = 1 THEN <<1, 3>> ELSE r
        ori == IF Len(pos) # 2 THEN q
               ELSE IF Len(q) = 1 THEN <<1, 4>> ELSE q
    IN  [obj EXCEPT !.position = pos, !.orientation = ori]

\* the forward self.FTobj.set_rq(self.position, self.orientation)
native_set_rq(obj) ==
    [obj EXCEPT !.native_position = obj.position,
                !.native_orientation = obj.orientation]

\* FTdelta.set_rq and FTpolyhedron.set_rq
set_rq(obj, r, q) == native_set_rq(FTbase_set_rq(obj, r, q))

\* FTdelta.compute: S = self.FTobj.getFT() * scale**3; the native object
\* returns one value for every K point it was given
compute(obj) == [obj EXCEPT !.S = Cardinality(obj.K)]

\* set_radius of the object's class: FTsphere stores float(radius);
\* FTpolyhedron and FTconvexPolyhedron call self.hull.setInsphereRadius,
\* which raises AttributeError when the object has no attribute hull
set_radius(obj, radius) ==
    IF obj.kind = "FTsphere" \/ obj.hull
    THEN [err |-> "ok", obj |-> [obj EXCEPT !.radius = radius]]
    ELSE [err |-> "AttributeError", obj |-> obj]

\* get_radius of the object's class.  FTsphere.get_radius assigns what the
\* native sphere returns to self.radius and returns it; the native sphere
\* may keep the radius in single precision.  The polyhedra return the
\* in-sphere radius of self.hull and store nothing.
get_radius(obj) ==
    IF obj.kind = "FTsphere"
    THEN { [err |-> "ok", ret |-> v, obj |-> [obj EXCEPT !.radius = v]] :
              v \in {obj.radius, Float32(obj.radius)} }
    ELSE IF obj.hull THEN { [err |-> "ok", ret |-> obj.radius, obj |-> obj] }
    ELSE { [err |-> "AttributeError", ret |-> NoneVal, obj |-> obj] }

\* FTbase.set_parambyname(name, value)
set_parambyname(obj, name, value) ==
    IF name \notin set_param_map(obj.kind)
    THEN [err |-> "KeyError", obj |-> obj]
    ELSE IF name = "scale" THEN [err |-> "ok", obj |-> set_scale(obj, value)]
    ELSE IF name = "density" THEN [err |-> "ok", obj |-> set_density(obj, value)]
    ELSE set_radius(obj, value)

\* FTbase.get_parambyname(name)
get_parambyname(obj, name) ==
    IF name \notin set_param_map(obj.kind)
    THEN { [err |-> "KeyError", ret |-> NoneVal, obj |-> obj] }
    ELSE IF name = "scale" THEN { [err |-> "ok", ret |-> obj.scale, obj |-> obj] }
    ELSE IF name = "density" THEN { [err |-> "ok", ret |-> obj.density, obj |-> obj] }
    ELSE get_radius(obj)

\* list.index(v) + 1, or 0 where Python raises ValueError
ListIndex(list, v) ==
    IF \E n \in 1 .. Len(list) : list[n] = v
    THEN CHOOSE n \in 1 .. Len(list) :
            list[n] = v /\ \A m \in 1 .. (n - 1) : list[m] # v
    ELSE 0

\* list.remove(v) of a list that holds v
ListRemove(list, v) ==
    LET n == ListIndex(list, v)
    IN  SubSeq(list, 1, n - 1) \o SubSeq(list, n + 1, Len(list))

\* the first slot of ptype_ff holding None (1-based), or 0
FirstNone(ffs) ==
    IF \E n \in 1 .. Len(ffs) : ffs[n].kind = "None"
    THEN CHOOSE n \in 1 .. Len(ffs) :
            ffs[n].kind = "None" /\ \A m \in 1 .. (n - 1) : ffs[m].kind # "None"
    ELSE 0

\* a loop over ptype_ff stops with AttributeError at the first None: the
\* slots it has handled by then
Handled(ffs, n) == FirstNone(ffs) = 0 \/ n < FirstNone(ffs)

\* the lattice vectors update_bases computes from boxMatrix and scale
LatticeOf(box, scale) ==
    LET a1 == << box * scale, 0, 0 >>
        a2 == << 0, box * scale, 0 >>
        a3 == << 0, 0, box * scale >>
    IN  [a |-> << a1, a2, a3 >>, g |-> reciprocalLattice3D(a1, a2, a3)]

\* the constraint update_K_constraint computes: Kmax = dK * ndiv
ConstraintOf(dK, ndiv) == AlignedBoxConstraint(RadiusOf(dK * ndiv), dK * ndiv, dK)

\* self.FT before the first calculate
NoFT == [len |-> NoneVal, terms |-> <<>>]

\* SingleCell3D.__init__(ndiv=3, dK=3, boxMatrix=identity)
CellInit ==
    /\ bases_valid = TRUE
    /\ K_constraint_valid = TRUE
    /\ Kpoints_valid = TRUE
    /\ FT_valid = FALSE
    /\ ptype_name = <<>>
    /\ ptype_position = <<>>
    /\ ptype_orientation = <<>>
    /\ ptype_ff = <<>>
    /\ param_keys = <<>>
    /\ ptype_param = [p \in ParamNames |-> <<>>]
    /\ active_types = {}
    /\ sc_scale = 1
    /\ sc_ndiv = 3
    /\ sc_dK = 3
    /\ sc_box = 1
    /\ bases = LatticeOf(1, 1)
    /\ K_constraint = ConstraintOf(3, 3)
    /\ Kpoints = constrainedLatticePoints(LatticeOf(1, 1).g[1], LatticeOf(1, 1).g[2],
                                          LatticeOf(1, 1).g[3], ConstraintOf(3, 3))
    /\ FT = NoFT
    /\ cell_out = [op |-> "init", name |-> "", err |-> "ok"]
    /\ cell_ops = 0

CellIdle == CellInit

CellFrame == UNCHANGED <<computeVars, linkVars, ftVars, sfVars, dbVars, anVars, gdVars, latVars, spVars>>

\* every call counts against the budget and records its outcome
CellCall(op, name, err) ==
    /\ cell_ops' = cell_ops + 1
    /\ cell_out' = [op |-> op, name |-> name, err |-> err]
    /\ CellFrame

flagVars == <<bases_valid, K_constraint_valid, Kpoints_valid, FT_valid>>
listVars == <<ptype_name, ptype_position, ptype_orientation, ptype_ff,
              param_keys, ptype_param, active_types>>
gridVars == <<sc_scale, sc_ndiv, sc_dK, sc_box, bases, K_constraint, Kpoints, FT>>

\* for param in self.ptype_param: self.ptype_param[param].append(None)
AppendPlaceholders_mut(keys, vals) == vals

AppendPlaceholders(keys, vals) ==
    [p \in DOMAIN vals |->
        IF p \in SeqRange(keys) THEN Append(vals[p], NoneVal) ELSE vals[p]]

\* SingleCell3D.add_ptype(name)
SC_add_ptype(name) ==
    /\ cell_ops < MaxCellOps
    /\ IF name \in SeqRange(ptype_name)
       THEN /\ CellCall("add_ptype", name, "ValueError")
            /\ UNCHANGED <<flagVars, listVars, gridVars>>
       ELSE /\ ptype_name' = Append(ptype_name, name)
            /\ ptype_position' = Append(ptype_position, <<0, 3>>)
            /\ ptype_orientation' = Append(ptype_orientation, <<0, 4>>)
            /\ ptype_ff' = Append(ptype_ff, NoFF)
            /\ ptype_param' = AppendPlaceholders(param_keys, ptype_param)
            /\ CellCall("add_ptype", name, "ok")
            /\ UNCHANGED <<flagVars, gridVars, param_keys, active_types>>

\* for param in self.ptype_param: self.ptype_param[param].remove(i)
\* ok is FALSE when a list does not hold the value i
RECURSIVE RemoveParams(_, _, _)
RemoveParams(keys, vals, i) ==
    IF keys = <<>> THEN [ok |-> TRUE, vals |-> vals]
    ELSE IF ListIndex(vals[Head(keys)], i) = 0 THEN [ok |-> FALSE, vals |-> vals]
    ELSE RemoveParams(Tail(keys),
                      [vals EXCEPT ![Head(keys)] = ListRemove(@, i)], i)

\* SingleCell3D.remove_ptype(name): every list.remove(i) removes the first
\* element EQUAL to the index i and raises ValueError when there is none.
\* The call raises in the loop over the parameter lists or, when it passes
\* them, at self.ptype_param_methods.remove(i): that list is created empty
\* and never appended to.  The lists of form factors, orientations,
\* positions and names are not reached.
SC_remove_ptype(name) ==
    /\ cell_ops < MaxCellOps
    /\ LET i == ListIndex(ptype_name, name) - 1
           r == RemoveParams(param_keys, ptype_param, i)
       IN  IF i < 0
           THEN /\ CellCall("remove_ptype", name, "ValueError")
                /\ UNCHANGED <<flagVars, listVars, gridVars>>
           ELSE /\ active_types' = active_types \ {i}
                /\ ptype_param' = r.vals
                /\ CellCall("remove_ptype", name, "ValueError")
                /\ UNCHANGED <<flagVars, gridVars, ptype_name, ptype_position,
                               ptype_orientation, ptype_ff, param_keys>>

\* set_active / set_inactive: self.FT_valid = False inside the branch taken
\* when the call changes the active set; the flag is not touched otherwise
Invalidate_mut(changed, valid) == valid

Invalidate(changed, valid) == IF changed THEN FALSE ELSE valid

\* SingleCell3D.set_active(name)
SC_set_active(name) ==
    /\ cell_ops < MaxCellOps
    /\ LET i == ListIndex(ptype_name, name) - 1
       IN  IF i < 0
           THEN /\ CellCall("set_active", name, "ValueError")
                /\ UNCHANGED <<flagVars, listVars, gridVars>>
           ELSE /\ active_types' = active_types \cup {i}
                /\ FT_valid' = Invalidate(i \notin active_types, FT_valid)
                /\ CellCall("set_active", name, "ok")
                /\ UNCHANGED <<bases_valid, K_constraint_valid, Kpoints_valid,
                               gridVars, ptype_name, ptype_position,
                               ptype_orientation, ptype_ff, param_keys, ptype_param>>

\* SingleCell3D.set_inactive(name)
SC_set_inactive(name) ==
    /\ cell_ops < MaxCellOps
    /\ LET i == ListIndex(ptype_name, name) - 1
       IN  IF i < 0
           THEN /\ CellCall("set_inactive", name, "ValueError")
                /\ UNCHANGED <<flagVars, listVars, gridVars>>
           ELSE /\ active_types' = active_types \ {i}
                /\ FT_valid' = Invalidate(i \in active_types, FT_valid)
                /\ CellCall("set_inactive", name, "ok")
                /\ UNCHANGED <<bases_valid, K_constraint_valid, Kpoints_valid,
                               gridVars, ptype_name, ptype_position,
                               ptype_orientation, ptype_ff, param_keys, ptype_param>>

\* the loop of set_form_factor that replays the stored parameters; a list
\* that remove_ptype left shorter than ptype_name raises IndexError
RECURSIVE ReplayParams(_, _, _, _)
ReplayParams(keys, vals, i, obj) ==
    IF keys = <<>> THEN [ok |-> TRUE, obj |-> obj]
    ELSE IF Head(keys) \notin get_params(obj)
    THEN ReplayParams(Tail(keys), vals, i, obj)
    ELSE IF i + 1 > Len(vals[Head(keys)]) THEN [ok |-> FALSE, obj |-> obj]
    ELSE ReplayParams(Tail(keys), vals, i,
            set_parambyname(obj, Head(keys), vals[Head(keys)][i + 1]).obj)

\* SingleCell3D.set_form_factor(name, ff)
SC_set_form_factor(name, ff) ==
    /\ cell_ops < MaxCellOps
    /\ LET i   == ListIndex(ptype_name, name) - 1
           j   == ListIndex(name_list, ff) - 1
           rp  == ReplayParams(param_keys, ptype_param, i, FTdelta)
           obj == set_K(
                    set_rq(
                      set_parambyname(rp.obj, "scale", sc_scale).obj,
                      ptype_position[i + 1], ptype_orientation[i + 1]),
                    Kpoints)
       IN  IF i < 0 \/ j < 0
           THEN /\ CellCall("set_form_factor", name, "ValueError")
                /\ UNCHANGED <<flagVars, listVars, gridVars>>
           ELSE IF ~rp.ok
           THEN /\ CellCall("set_form_factor", name, "IndexError")
                /\ UNCHANGED <<flagVars, listVars, gridVars>>
           ELSE /\ ptype_ff' = [ptype_ff EXCEPT ![i + 1] = obj]
                /\ FT_valid' = IF i \in active_types THEN FALSE ELSE FT_valid
                /\ CellCall("set_form_factor", name, "ok")
                /\ UNCHANGED <<bases_valid, K_constraint_valid, Kpoints_valid,
                               gridVars, ptype_name, ptype_position,
                               ptype_orientation, param_keys, ptype_param,
                               active_types>>

\* SingleCell3D.set_param(particle, param, value): the value is stored
\* before the form factor is asked whether it has the parameter; a list
\* that remove_ptype left shorter than ptype_name raises IndexError
SC_set_param(particle, param, value) ==
    /\ cell_ops < MaxCellOps
    /\ LET i     == ListIndex(ptype_name, particle) - 1
           fresh == [n \in 1 .. Len(ptype_name) |-> NoneVal]
           lists == IF param \in SeqRange(param_keys) THEN ptype_param
                    ELSE [ptype_param EXCEPT ![param] = fresh]
           FTobj == ptype_ff[i + 1]
       IN  IF i < 0
           THEN /\ CellCall("set_param", particle, "ValueError")
                /\ UNCHANGED <<flagVars, listVars, gridVars>>
           ELSE IF i + 1 > Len(lists[param])
           THEN /\ CellCall("set_param", particle, "IndexError")
                /\ UNCHANGED <<flagVars, listVars, gridVars>>
           ELSE /\ param_keys' = IF param \in SeqRange(param_keys) THEN param_keys
                                 ELSE Append(param_keys, param)
                /\ ptype_param' = [lists EXCEPT ![param][i + 1] = value]
                /\ IF FTobj.kind = "None"
                   THEN /\ CellCall("set_param", particle, "AttributeError")
                        /\ UNCHANGED <<ptype_ff, FT_valid>>
                   ELSE IF param \notin get_params(FTobj)
                   THEN /\ CellCall("set_param", particle, "KeyError")
                        /\ UNCHANGED <<ptype_ff, FT_valid>>
                   ELSE /\ ptype_ff' = [ptype_ff EXCEPT ![i + 1] =
                                          set_parambyname(FTobj, param, value).obj]
                        /\ FT_valid' = IF i \in active_types THEN FALSE ELSE FT_valid
                        /\ CellCall("set_param", particle, "ok")
                /\ UNCHANGED <<bases_valid, K_constraint_valid, Kpoints_valid,
                               gridVars, ptype_name, ptype_position,
                               ptype_orientation, active_types>>

\* SingleCell3D.set_scale(scale)
SC_set_scale(scale) ==
    /\ cell_ops < MaxCellOps
    /\ LET done == [n \in 1 .. Len(ptype_ff) |->
                      IF Handled(ptype_ff, n) THEN set_scale(ptype_ff[n], scale)
                      ELSE ptype_ff[n]]
       IN  /\ sc_scale' = Float32(scale)
           /\ ptype_ff' = done
           /\ IF FirstNone(ptype_ff) # 0
              THEN /\ CellCall("set_scale", "", "AttributeError")
                   /\ UNCHANGED bases_valid
              ELSE /\ bases_valid' = FALSE
                   /\ CellCall("set_scale", "", "ok")
    /\ UNCHANGED <<K_constraint_valid, Kpoints_valid, FT_valid, ptype_name,
                   ptype_position, ptype_orientation, param_keys, ptype_param,
                   active_types, sc_ndiv, sc_dK, sc_box, bases, K_constraint,
                   Kpoints, FT>>

\* SingleCell3D.set_box(boxMatrix)
SC_set_box(box) ==
    /\ cell_ops < MaxCellOps
    /\ sc_box' = box
    /\ bases_valid' = FALSE
    /\ CellCall("set_box", "", "ok")
    /\ UNCHANGED <<K_constraint_valid, Kpoints_valid, FT_valid, listVars,
                   sc_scale, sc_ndiv, sc_dK, bases, K_constraint, Kpoints, FT>>

\* SingleCell3D.set_rq(name, position, orientation), the arrays given by shape
SC_set_rq(name, r, q) ==
    /\ cell_ops < MaxCellOps
    /\ LET i == ListIndex(ptype_name, name) - 1
       IN  IF i < 0 \/ q[1] # r[1] \/ Len(r) # 2 \/ r[2] # 3
              \/ Len(q) # 2 \/ q[2] # 4
           THEN /\ CellCall("set_rq", name, "ValueError")
                /\ UNCHANGED <<flagVars, listVars, gridVars>>
           ELSE /\ ptype_position' = [ptype_position EXCEPT ![i + 1] = r]
                /\ ptype_orientation' = [ptype_orientation EXCEPT ![i + 1] = q]
                /\ IF ptype_ff[i + 1].kind = "None"
                   THEN /\ CellCall("set_rq", name, "AttributeError")
                        /\ UNCHANGED <<ptype_ff, FT_valid>>
                   ELSE /\ ptype_ff' = [ptype_ff EXCEPT ![i + 1] =
                                          set_rq(@, r, q)]
                        /\ FT_valid' = IF i \in active_types THEN FALSE ELSE FT_valid
                        /\ CellCall("set_rq", name, "ok")
                /\ UNCHANGED <<bases_valid, K_constraint_valid, Kpoints_valid,
                               gridVars, ptype_name, param_keys, ptype_param,
                               active_types>>

\* SingleCell3D.set_ndiv(ndiv)
SC_set_ndiv(ndiv) ==
    /\ cell_ops < MaxCellOps
    /\ sc_ndiv' = ndiv
    /\ K_constraint_valid' = FALSE
    /\ CellCall("set_ndiv", "", "ok")
    /\ UNCHANGED <<bases_valid, Kpoints_valid, FT_valid, listVars, sc_scale,
                   sc_dK, sc_box, bases, K_constraint, Kpoints, FT>>

\* SingleCell3D.set_dK(dK)
SC_set_dK(dK) ==
    /\ cell_ops < MaxCellOps
    /\ sc_dK' = dK
    /\ K_constraint_valid' = FALSE
    /\ CellCall("set_dK", "", "ok")
    /\ UNCHANGED <<bases_valid, Kpoints_valid, FT_valid, listVars, sc_scale,
                   sc_ndiv, sc_box, bases, K_constraint, Kpoints, FT>>

\* SingleCell3D.update_bases()
SC_update_bases ==
    /\ cell_ops < MaxCellOps
    /\ bases_valid' = TRUE
    /\ bases' = LatticeOf(sc_box, sc_scale)
    /\ K_constraint_valid' = FALSE
    /\ CellCall("update_bases", "", "ok")
    /\ UNCHANGED <<Kpoints_valid, FT_valid, listVars, sc_scale, sc_ndiv, sc_dK,
                   sc_box, K_constraint, Kpoints, FT>>

\* SingleCell3D.update_K_constraint()
SC_update_K_constraint ==
    /\ cell_ops < MaxCellOps
    /\ K_constraint_valid' = TRUE
    /\ K_constraint' = ConstraintOf(sc_dK, sc_ndiv)
    /\ Kpoints_valid' = FALSE
    /\ CellCall("update_K_constraint", "", "ok")
    /\ UNCHANGED <<bases_valid, FT_valid, listVars, sc_scale, sc_ndiv, sc_dK,
                   sc_box, bases, Kpoints, FT>>

\* SingleCell3D.update_Kpoints()
SC_update_Kpoints ==
    /\ cell_ops < MaxCellOps
    /\ LET K == constrainedLatticePoints(bases.g[1], bases.g[2], bases.g[3],
                                         K_constraint)
           done == [n \in 1 .. Len(ptype_ff) |->
                      IF Handled(ptype_ff, n) THEN set_K(ptype_ff[n], K)
                      ELSE ptype_ff[n]]
       IN  /\ Kpoints_valid' = TRUE
           /\ Kpoints' = K
           /\ ptype_ff' = done
           /\ IF FirstNone(ptype_ff) # 0
              THEN /\ CellCall("update_Kpoints", "", "AttributeError")
                   /\ UNCHANGED FT_valid
              ELSE /\ FT_valid' = FALSE
                   /\ CellCall("update_Kpoints", "", "ok")
    /\ UNCHANGED <<bases_valid, K_constraint_valid, ptype_name, ptype_position,
                   ptype_orientation, param_keys, ptype_param, active_types,
                   sc_scale, sc_ndiv, sc_dK, sc_box, bases, K_constraint, FT>>

\* self.FT += calculator.getFT() for the type of index i: the array is kept
\* by its length and the list of the types whose result was added
AddTerm(ft, i) == [ft EXCEPT !.terms = Append(@, i)]

\* the loop of calculate over the active types, in increasing index order:
\* calculator.compute() then self.FT += calculator.getFT()
RECURSIVE Accumulate(_, _, _)
Accumulate(todo, ffs, ft) ==
    IF todo = {} THEN [err |-> "ok", ffs |-> ffs, ft |-> ft]
    ELSE LET i   == CHOOSE x \in todo : \A y \in todo : x <= y
             obj == compute(ffs[i + 1])
         IN  IF ffs[i + 1].kind = "None"
             THEN [err |-> "AttributeError", ffs |-> ffs, ft |-> ft]
             ELSE IF obj.S # ft.len /\ obj.S # 1
             THEN [err |-> "ValueError",
                   ffs |-> [ffs EXCEPT ![i + 1] = obj], ft |-> ft]
             ELSE Accumulate(todo \ {i}, [ffs EXCEPT ![i + 1] = obj],
                             AddTerm(ft, i))

\* SingleCell3D.calculate()
SC_calculate ==
    /\ cell_ops < MaxCellOps
    /\ LET zeros == [len |-> Cardinality(Kpoints), terms |-> <<>>]
           r     == Accumulate(active_types, ptype_ff, zeros)
       IN  /\ FT_valid' = TRUE
           /\ FT' = r.ft
           /\ ptype_ff' = r.ffs
           /\ CellCall("calculate", "", r.err)
    /\ UNCHANGED <<bases_valid, K_constraint_valid, Kpoints_valid, ptype_name,
                   ptype_position, ptype_orientation, param_keys, ptype_param,
                   active_types, sc_scale, sc_ndiv, sc_dK, sc_box, bases,
                   K_constraint, Kpoints>>

NextCell ==
    \/ \E name \in TypeNames : SC_add_ptype(name)
    \/ \E name \in TypeNames : SC_remove_ptype(name)
    \/ \E name \in TypeNames : SC_set_active(name)
    \/ \E name \in TypeNames : SC_set_inactive(name)
    \/ \E name \in TypeNames, ff \in FormFactorNames : SC_set_form_factor(name, ff)
    \/ \E name \in TypeNames, param \in ParamNames, value \in ParamValues :
          SC_set_param(name, param, value)
    \/ \E scale \in ScaleArgs : SC_set_scale(scale)
    \/ \E box \in BoxArgs : SC_set_box(box)
    \/ \E name \in TypeNames, rq \in RqArgs : SC_set_rq(name, rq[1], rq[2])
    \/ \E ndiv \in NdivArgs : SC_set_ndiv(ndiv)
    \/ \E dK \in DKArgs : SC_set_dK(dK)
    \/ SC_update_bases
    \/ SC_update_K_constraint
    \/ SC_update_Kpoints
    \/ SC_calculate

\* ========================================================================
\* One form-factor object and the calls of FTbase on it (freud/kspace.pyx)
\* ========================================================================
FTKinds == {FTbase, FTdelta, FTsphere, FTpolyhedron, FTconvexPolyhedron}
FTParamNames == {"scale", "density", "radius", "bogus"}
FTValues == {2, 16777217}
\* shapes of the arrays handed to set_rq: ranks 0, 1, 2 and 3
PositionArgs == { <<>>, <<3>>, <<2, 3>>, <<1, 1, 3>> }
OrientationArgs == { <<>>, <<4>>, <<2, 4>>, <<1, 1, 4>> }

NoCall == [op |-> "init", name |-> "", value |-> NoneVal, r |-> <<>>,
           q |-> <<>>, err |-> "ok", ret |-> NoneVal]

FTInitWith(obj) ==
    /\ ft_obj = obj
    /\ ft_out = NoCall
    /\ ft_ops = 0

FTInit == \E obj \in FTKinds : FTInitWith(obj)

FTIdle == FTInitWith(FTbase)

FTFrame == UNCHANGED <<computeVars, linkVars, cellVars, sfVars, dbVars, anVars, gdVars, latVars, spVars>>

\* obj.set_parambyname(name, value)
FT_set_parambyname(name, value) ==
    /\ ft_ops < MaxFTOps
    /\ LET res == set_parambyname(ft_obj, name, value)
       IN  /\ ft_obj' = res.obj
           /\ ft_out' = [NoCall EXCEPT !.op = "set_parambyname", !.name = name,
                                       !.value = value, !.err = res.err]
    /\ ft_ops' = ft_ops + 1
    /\ FTFrame

\* obj.get_parambyname(name)
FT_get_parambyname(name) ==
    /\ ft_ops < MaxFTOps
    /\ \E res \in get_parambyname(ft_obj, name) :
          /\ ft_out' = [NoCall EXCEPT !.op = "get_parambyname", !.name = name,
                                     !.err = res.err, !.ret = res.ret]
          /\ ft_obj' = res.obj
    /\ ft_ops' = ft_ops + 1
    /\ FTFrame

\* obj.set_rq(r, q): FTbase.set_rq raises nothing; the subclasses forward
\* what is stored to the native object, which takes arrays of rank 2 and
\* may accept or reject any other
FT_set_rq(r, q) ==
    /\ ft_ops < MaxFTOps
    /\ LET base  == FTbase_set_rq(ft_obj, r, q)
           valid == Len(base.position) = 2 /\ Len(base.orientation) = 2
           call(err) == [NoCall EXCEPT !.op = "set_rq", !.r = r, !.q = q,
                                       !.err = err]
       IN  IF ft_obj.kind = "FTbase"
           THEN ft_obj' = base /\ ft_out' = call("ok")
           ELSE \/ ft_obj' = native_set_rq(base) /\ ft_out' = call("ok")
                \/ ~valid /\ ft_obj' = base /\ ft_out' = call("ValueError")
    /\ ft_ops' = ft_ops + 1
    /\ FTFrame

NextFT ==
    \/ \E name \in FTParamNames, value \in FTValues : FT_set_parambyname(name, value)
    \/ \E name \in FTParamNames : FT_get_parambyname(name)
    \/ \E r \in PositionArgs, q \in OrientationArgs : FT_set_rq(r, q)

\* ========================================================================
\* SFactor3DPoints (freud/kspace.pyx)
\* ========================================================================
\* The box is cubic of edge L and point coordinates are counted in L / 4,
\* so that q . r is a whole number of quarter turns and exp(i q . r) is one
\* of 1, i, -1, -i.  A complex array is kept as Gaussian-integer numerators
\* num over one real denominator den; den = 0 is the result of the division
\* by zero.
SFCoords == { <<0, 0, 0>>, <<1, 0, 0>>, <<1, 2, 3>>, <<2, 2, 0>> }

RECURSIVE SeqsUpTo(_, _)
SeqsUpTo(S, n) ==
    IF n = 0 THEN { <<>> }
    ELSE SeqsUpTo(S, n - 1)
           \cup { Append(q, x) : q \in { t \in SeqsUpTo(S, n - 1) : Len(t) = n - 1 },
                                 x \in S }

SFPointArgs == SeqsUpTo(SFCoords, MaxPts)

\* the array indices [c, b, a] of a grid of 2 * g + 1 points per axis
GridIndex(g) == (0 .. 2 * g) \X (0 .. 2 * g) \X (0 .. 2 * g)

\* exp(1j * t) for t a whole number of quarter turns
ExpI(t) ==
    LET r == t % 4
    IN  IF r = 0 THEN <<1, 0>>
        ELSE IF r = 1 THEN <<0, 1>>
        ELSE IF r = 2 THEN <<-1, 0>>
        ELSE <<0, -1>>

\* qx_grid * p[0] + qy_grid * p[1] + qz_grid * p[2] at index [c, b, a]:
\* meshgrid2 puts qx on the last axis, qy on the middle one, qz on the first
Phase(g, idx, p) == (idx[3] - g) * p[1] + (idx[2] - g) * p[2] + (idx[1] - g) * p[3]

\* np.zeros(shape=(grid, grid, grid))
ZeroGrid(g) == [num |-> [idx \in GridIndex(g) |-> <<0, 0>>], den |-> 1]

\* the loop of compute: self.s_complex += np.exp(1j * (...)) for p in points
RECURSIVE AddPoints(_, _, _)
AddPoints(g, num, points) ==
    IF points = <<>> THEN num
    ELSE AddPoints(g,
                   [idx \in GridIndex(g) |->
                      << num[idx][1] + ExpI(Phase(g, idx, Head(points)))[1],
                         num[idx][2] + ExpI(Phase(g, idx, Head(points)))[2] >>],
                   Tail(points))

\* np.absolute(z) of a Gaussian integer whose modulus is whole
Absolute(z) == ISqrt(z[1] * z[1] + z[2] * z[2])

\* self.s_complex /= cinv
Normalize_mut(num, cinv) == [num |-> num, den |-> 1]

Normalize(num, cinv) == [num |-> num, den |-> cinv]

\* SFactor3DPoints.compute(points), the new s_complex
ComputeSComplex(g, points) ==
    LET num  == AddPoints(g, ZeroGrid(g).num, points)
        mid  == (2 * g + 1) \div 2
        cinv == Absolute(num[<<mid, mid, mid>>])
    IN  Normalize(num, cinv)

\* (self.s_complex * np.conj(self.s_complex)).astype(np.float32)
SquaredModulus(s) ==
    [num |-> [idx \in DOMAIN s.num |->
                 << s.num[idx][1] * s.num[idx][1] + s.num[idx][2] * s.num[idx][2], 0 >>],
     den |-> s.den * s.den]

\* no array returned
NoArray == [num |-> <<>>, den |-> 0]

SFInitWith(g) ==
    /\ sf_g = g
    /\ sf_s_complex = ZeroGrid(g)
    /\ sf_out = [op |-> "init", n |-> 0, err |-> "ok", ret |-> NoArray]
    /\ sf_ops = 0

\* SFactor3DPoints.__init__(box, g)
SFInit == \E g \in 0 .. MaxG : SFInitWith(g)

SFIdle == SFInitWith(0)

SFFrame == UNCHANGED <<computeVars, linkVars, cellVars, ftVars, dbVars, anVars, gdVars, latVars, spVars>>

\* SFactor3DPoints.compute(points)
S3D_compute(points) ==
    /\ sf_ops < MaxSFOps
    /\ sf_s_complex' = ComputeSComplex(sf_g, points)
    /\ sf_out' = [op |-> "compute", n |-> Len(points), err |-> "ok", ret |-> NoArray]
    /\ sf_ops' = sf_ops + 1
    /\ UNCHANGED sf_g
    /\ SFFrame

\* SFactor3DPoints.getS()
S3D_getS ==
    /\ sf_ops < MaxSFOps
    /\ sf_out' = [op |-> "getS", n |-> 0, err |-> "ok",
                  ret |-> SquaredModulus(sf_s_complex)]
    /\ sf_ops' = sf_ops + 1
    /\ UNCHANGED <<sf_g, sf_s_complex>>
    /\ SFFrame

\* SFactor3DPoints.getSComplex(): copy.cpy(self.s_complex); the module copy
\* has no attribute cpy
S3D_getSComplex ==
    /\ sf_ops < MaxSFOps
    /\ sf_out' = [op |-> "getSComplex", n |-> 0, err |-> "AttributeError",
                  ret |-> NoArray]
    /\ sf_ops' = sf_ops + 1
    /\ UNCHANGED <<sf_g, sf_s_complex>>
    /\ SFFrame

NextSF ==
    \/ \E points \in SFPointArgs : S3D_compute(points)
    \/ S3D_getS
    \/ S3D_getSComplex

\* ========================================================================
\* StaticStructureFactorDebye (StaticStructureFactorDebye.cc)
\* ========================================================================
\* A float is a whole number or NaN; every comparison with NaN is false.
Real(x) == [nan |-> FALSE, v |-> x]

NaNf == [nan |-> TRUE, v |-> 0]

FloatArgs == { Real(x) : x \in -1 .. 1 } \cup { NaNf }

\* a <= b on floats
FLe(a, b) == ~a.nan /\ ~b.nan /\ a.v <= b.v

\* a < b on floats
FLt(a, b) == ~a.nan /\ ~b.nan /\ a.v < b.v

\* a > b on floats
FGt(a, b) == ~a.nan /\ ~b.nan /\ a.v > b.v

\* a >= b on floats
FGe(a, b) == ~a.nan /\ ~b.nan /\ a.v >= b.v

\* the argument checks of the constructor: the message of the first one
\* that throws std::invalid_argument, or "ok"
Debye_check(bins, k_max, k_min) ==
    IF bins = 0 THEN "nonzero number of bins"
    ELSE IF FLe(k_max, Real(0)) THEN "k_max to be positive"
    ELSE IF FLt(k_min, Real(0)) THEN "k_min to be non-negative"
    ELSE IF FLe(k_max, k_min) THEN "k_max must be greater than k_min"
    ELSE "ok"

\* std::numeric_limits<float>::infinity()
Infinity == 1000

\* the threads that own a local histogram
Threads == {1, 2}

\* a + b on floats
FAdd(a, b) == IF a.nan \/ b.nan THEN NaNf ELSE Real(a.v + b.v)

\* a histogram of the given number of bins, all zero
ZeroHistogram(bins) == [k \in 1 .. bins |-> Real(0)]

NoAxis == [bins |-> 0, k_min |-> Real(0), k_max |-> Real(0)]

NoDebyeCall == [op |-> "init", bins |-> 0, k_max |-> Real(0), k_min |-> Real(0),
                err |-> "ok"]

\* no object yet
DebyeInit ==
    /\ db_made = FALSE
    /\ db_axis = NoAxis
    /\ db_local = [t \in Threads |-> <<>>]
    /\ db_frame_counter = 0
    /\ db_reduce = FALSE
    /\ db_min_valid_k = Infinity
    /\ db_structure_factor = <<>>
    /\ db_frames = <<>>
    /\ db_out = NoDebyeCall
    /\ db_ops = 0

DebyeIdle == DebyeInit

DebyeFrame == UNCHANGED <<computeVars, linkVars, cellVars, ftVars, sfVars, anVars, gdVars, latVars, spVars>>

\* StaticStructureFactorDebye(bins, k_max, k_min)
Debye_ctor(bins, k_max, k_min) ==
    /\ db_ops < MaxDBOps
    /\ ~db_made
    /\ LET err == Debye_check(bins, k_max, k_min)
       IN  /\ db_out' = [op |-> "ctor", bins |-> bins, k_max |-> k_max,
                         k_min |-> k_min, err |-> err]
           /\ IF err = "ok"
              THEN /\ db_made' = TRUE
                   /\ db_axis' = [bins |-> bins, k_min |-> k_min, k_max |-> k_max]
                   /\ db_local' = [t \in Threads |-> ZeroHistogram(bins)]
                   /\ db_structure_factor' =
                        [k \in 1 .. bins |-> [num |-> Real(0), den |-> 1]]
              ELSE UNCHANGED <<db_made, db_axis, db_local, db_structure_factor>>
    /\ db_ops' = db_ops + 1
    /\ UNCHANGED <<db_frame_counter, db_reduce, db_min_valid_k, db_frames>>
    /\ DebyeFrame

\* a frame: the sums of sinc(k * distance) over its distances, per bin (the
\* same in every bin, or growing with the bin), the normalization count
\* n_total and the smallest side of its box
SincSums(bins) == { [k \in 1 .. bins |-> 2], [k \in 1 .. bins |-> 2 * k] }
NTotals == {1, 2}
BoxSides == {4, 2}

FrameArgs(bins) ==
    [sums : SincSums(bins), n_total : NTotals, side : BoxSides]

\* forLoopWrapper hands the bins up to the split to thread 1, the others
\* to thread 2
SplitArgs == {0, 1}

\* the bin centres of RegularAxis(bins, k_min, k_max) lie between the ends
\* of the axis: every one of them is NaN when an end is
CentreIsNaN(axis) == axis.k_min.nan \/ axis.k_max.nan

\* S_k of every bin for one frame: the sum of sinc(k * distance) over the
\* frame's distances, which is NaN when the bin centre k is, and then
\* S_k /= static_cast<double>(n_total)
FrameSk(frame, axis) ==
    [k \in DOMAIN frame.sums |->
        IF CentreIsNaN(axis) THEN NaNf
        ELSE Real(frame.sums[k] \div frame.n_total)]

\* TWO_PI / r_max with r_max just below half the smallest box side
MinValidK(side) == (2 * TwoPi) \div side

Min(a, b) == IF a <= b THEN a ELSE b

\* accumulate(...): each thread increments its own histogram
Debye_accumulate(frame, split) ==
    /\ db_ops < MaxDBOps
    /\ db_made
    /\ db_frame_counter < MaxFrames
    /\ DOMAIN frame.sums = 1 .. db_axis.bins
    /\ db_min_valid_k' = Min(db_min_valid_k, MinValidK(frame.side))
    /\ db_local' = [t \in Threads |->
                      [k \in 1 .. db_axis.bins |->
                         IF (t = 1) = (k <= split)
                         THEN FAdd(db_local[t][k], FrameSk(frame, db_axis)[k])
                         ELSE db_local[t][k]]]
    /\ db_frame_counter' = db_frame_counter + 1
    /\ db_reduce' = TRUE
    /\ db_frames' = Append(db_frames, FrameSk(frame, db_axis))
    /\ db_out' = [NoDebyeCall EXCEPT !.op = "accumulate"]
    /\ db_ops' = db_ops + 1
    /\ UNCHANGED <<db_made, db_axis, db_structure_factor>>
    /\ DebyeFrame

\* m_structure_factor[i] /= m_frame_counter when m_frame_counter > 1
Divisor_mut(frame_counter) == 1

Divisor(frame_counter) == IF frame_counter > 1 THEN frame_counter ELSE 1

\* reduce(): every bin is kept as the merged sum over the divisor
Debye_reduce ==
    /\ db_ops < MaxDBOps
    /\ db_made
    /\ db_structure_factor' =
         [k \in 1 .. db_axis.bins |->
            [num |-> FAdd(db_local[1][k], db_local[2][k]),
             den |-> Divisor(db_frame_counter)]]
    /\ db_out' = [NoDebyeCall EXCEPT !.op = "reduce"]
    /\ db_ops' = db_ops + 1
    /\ UNCHANGED <<db_made, db_axis, db_local, db_frame_counter, db_reduce,
                   db_min_valid_k, db_frames>>
    /\ DebyeFrame

NextDebye ==
    \/ \E bins \in 0 .. MaxBins, k_max \in FloatArgs, k_min \in FloatArgs :
          Debye_ctor(bins, k_max, k_min)
    \/ \E bins \in 1 .. MaxBins, split \in SplitArgs :
          \E frame \in FrameArgs(bins) : Debye_accumulate(frame, split)
    \/ Debye_reduce

\* ========================================================================
\* AnalyzeSFactor3D (freud/kspace.pyx)
\* ========================================================================
\* values of the cells of an S grid, and the cut arguments
SValues == {0, 1, 2}
CutArgs == {0, 1, 2}

\* the array indices of a cubic grid of side grid
ACells(grid) == (0 .. grid - 1) \X (0 .. grid - 1) \X (0 .. grid - 1)

\* the grids handed to the constructor: side 2g+1, all cells zero but the
\* centre, one cell h and the cell opposite to h through the centre
AGrids(g) ==
    { [c \in ACells(2 * g + 1) |->
          IF c = h THEN v1
          ELSE IF c = <<2 * g - h[1], 2 * g - h[2], 2 * g - h[3]>> THEN v2
          ELSE IF c = <<g, g, g>> THEN v0
          ELSE 0] :
          h \in ACells(2 * g + 1), v0 \in SValues, v1 \in SValues, v2 \in SValues }

\* the elementwise test numpy makes in self.S > cut
Above_mut(s, cut) == s >= cut
Above(s, cut) == s > cut

\* the n-th array index in the row-major order numpy's nonzero() reports
RowMajor(grid, n) ==
    <<(n - 1) \div (grid * grid), ((n - 1) \div grid) % grid, (n - 1) % grid>>

\* (self.S > cut).nonzero(): the indices of the true cells, in row-major order
nonzero(S, grid, cut) ==
    LET all == [n \in 1 .. grid * grid * grid |-> RowMajor(grid, n)]
        Test(c) == Above(S[c], cut)
    IN  SelectSeq(all, Test)

\* clist -= self.g; blist -= self.g; alist -= self.g, zipped
Centered(idx, g) == <<idx[1] - g, idx[2] - g, idx[3] - g>>

\* AnalyzeSFactor3D.getPeakList: the pair (q_list, peak_list)
getPeakList(S, g, cut) ==
    LET hot    == nonzero(S, 2 * g + 1, cut)
        q_list == [i \in 1 .. Len(hot) |-> Centered(hot[i], g)]
    IN  [q_list    |-> q_list,
         peak_list |-> [i \in 1 .. Len(q_list) |->
                           S[<<q_list[i][1] + g, q_list[i][2] + g, q_list[i][3] + g>>]]]

\* q[0] * q[0] + q[1] * q[1] + q[2] * q[2]
Qsq(q) == q[1] * q[1] + q[2] * q[2] + q[3] * q[3]

\* AnalyzeSFactor3D.getPeakDegeneracy: the dictionary from q squared to the
\* peaks found at it, each list in the order of the peak list
getPeakDegeneracy(S, g, cut) ==
    LET pl   == getPeakList(S, g, cut)
        n    == Len(pl.q_list)
        keys == {Qsq(pl.q_list[i]) : i \in 1 .. n}
    IN  [k \in keys |->
            LET Test(i) == Qsq(pl.q_list[i]) = k
                at == SelectSeq([i \in 1 .. n |-> i], Test)
            IN  [j \in 1 .. Len(at) |-> pl.peak_list[at[j]]]]

NoAnCall == [op |-> "none", cut |-> 0, q_list |-> <<>>, peak_list |-> <<>>, deg |-> <<>>]

\* AnalyzeSFactor3D.__init__(S) for a grid of side 2g+1
AnInitWith(g, S) ==
    /\ an_S = S
    /\ an_g = (2 * g + 1) \div 2
    /\ an_out = NoAnCall

AnIdle == AnInitWith(0, <<>>)

\* the analyzer's calls leave the other components alone
AnFrame == UNCHANGED <<computeVars, linkVars, cellVars, ftVars, sfVars, dbVars, gdVars, latVars, spVars>>

\* a call of getPeakList(cut)
An_getPeakList(cut) ==
    /\ LET r == getPeakList(an_S, an_g, cut)
       IN  an_out' = [op |-> "getPeakList", cut |-> cut, q_list |-> r.q_list,
                      peak_list |-> r.peak_list, deg |-> <<>>]
    /\ UNCHANGED <<an_S, an_g>>
    /\ AnFrame

\* a call of getPeakDegeneracy(cut)
An_getPeakDegeneracy(cut) ==
    /\ an_out' = [op |-> "getPeakDegeneracy", cut |-> cut, q_list |-> <<>>,
                  peak_list |-> <<>>, deg |-> getPeakDegeneracy(an_S, an_g, cut)]
    /\ UNCHANGED <<an_S, an_g>>
    /\ AnFrame

NextAnalyze ==
    \/ \E cut \in CutArgs : An_getPeakList(cut)
    \/ \E cut \in CutArgs : An_getPeakDegeneracy(cut)

\* ========================================================================
\* GaussianDensity::compute (cpp/density/GaussianDensity.cc)
\* ========================================================================
\* The box has edge lx = width on x, so grid_size_x is 1; ly and lz exceed
\* r_max and the grid has one cell on y and z, so the loops over j and k run
\* once with dy = dz = 0.  Points lie at the centre of their cell.

\* the worker threads of forLoopWrapper
GDThreads == {1, 2}

\* x % n in unsigned 32-bit arithmetic for a signed 32-bit x: a negative x is
\* read as 2^32 + x, and 2^32 = 65536 * 65536
UMod32(x, n) ==
    IF x >= 0 THEN x % n
    ELSE ((((65536 % n) * (65536 % n)) % n) + (x % n)) % n

\* const unsigned int ni = (i + m_width.x) % m_width.x
StoreIndex(i, width) == UMod32(i + width, width)

\* const int bin_cut_x = int(m_r_max / grid_size_x)
BinCut(r2) == r2 \div 2

\* m_box.wrap on the x component: the minimum image of a distance on a
\* periodic axis; on an axis that is not periodic the distance passes through
BoxWrap(d, width, periodic) ==
    LET m == d % width
    IN  IF ~periodic THEN d
        ELSE IF 2 * m >= width THEN m - width ELSE m

\* A * std::exp(-r_sq / (2 * sigmasq)) for the sigma that halves the value
\* with every unit of r_sq (2 * sigmasq = 1 / ln 2), A counted as GaussianPeak
Gaussian(r_sq) == GaussianPeak \div (2 ^ r_sq)

\* values of r_max: half a grid spacing, and more than the box length
R2Args(width) == {1, 2 * width + 3}

GDPointLists(width) == UNION { [1 .. n -> 0 .. (width - 1)] : n \in 0 .. MaxGDPts }

NoWork == [idx |-> 0, i |-> 0, busy |-> FALSE]
NoStore == [i |-> 0, ni |-> 0, any |-> FALSE]

\* GaussianDensity::GaussianDensity and the head of compute: both the output
\* array and the thread-local grids are zeroed
GDInitWith(width, r2, periodic, points) ==
    /\ gd_width = width
    /\ gd_r2 = r2
    /\ gd_periodic = periodic
    /\ gd_points = points
    /\ gd_taken = {}
    /\ gd_work = [t \in GDThreads |-> NoWork]
    /\ gd_local = [t \in GDThreads |-> [c \in 0 .. (width - 1) |-> 0]]
    /\ gd_density = [c \in 0 .. (width - 1) |-> 0]
    /\ gd_store = NoStore
    /\ gd_reduced = FALSE

GDIdle == GDInitWith(1, 1, TRUE, <<>>)

GDFrame == UNCHANGED <<computeVars, linkVars, cellVars, ftVars, sfVars, dbVars, anVars, latVars, spVars>>

\* forLoopWrapper hands point idx to thread t: the thread enters the loop
\* over i at bin_x - bin_cut_x.  Points are handed out in index order, each
\* to whichever thread is free, so every split of the range into per-thread
\* subranges occurs.
GD_begin(t, idx) ==
    /\ ~gd_work[t].busy
    /\ idx \in 1 .. Len(gd_points)
    /\ gd_taken = 1 .. (idx - 1)
    /\ gd_taken' = gd_taken \cup {idx}
    /\ gd_work' = [gd_work EXCEPT ![t] =
                      [idx |-> idx, i |-> gd_points[idx] - BinCut(gd_r2), busy |-> TRUE]]
    /\ UNCHANGED <<gd_width, gd_r2, gd_periodic, gd_points, gd_local,
                   gd_density, gd_store, gd_reduced>>
    /\ GDFrame

\* one pass of thread t through the body of the loop over i
GD_iter(t) ==
    /\ gd_work[t].busy
    /\ LET i     == gd_work[t].i
           bin_x == gd_points[gd_work[t].idx]
           skip  == ~gd_periodic /\ (i < 0 \/ i >= gd_width)
           delta == BoxWrap(i - bin_x, gd_width, gd_periodic)
           r_sq  == delta * delta
           ni    == StoreIndex(i, gd_width)
           last  == i + 1 > bin_x + BinCut(gd_r2)
       IN  /\ IF ~skip /\ 4 * r_sq < gd_r2 * gd_r2
              THEN /\ gd_local' = [gd_local EXCEPT ![t][ni] = @ + Gaussian(r_sq)]
                   /\ gd_store' = [i |-> i, ni |-> ni, any |-> TRUE]
              ELSE UNCHANGED <<gd_local, gd_store>>
           /\ gd_work' = [gd_work EXCEPT ![t] =
                             IF last THEN NoWork ELSE [@ EXCEPT !.i = i + 1]]
    /\ UNCHANGED <<gd_width, gd_r2, gd_periodic, gd_points, gd_taken,
                   gd_density, gd_reduced>>
    /\ GDFrame

\* ThreadStorage::reduceInto: what the output array holds after the local
\* grids were reduced into it
ReduceInto_mut(local, width) ==
    [c \in 0 .. (width - 1) |-> local[1][c]]

ReduceInto(local, width) ==
    [c \in 0 .. (width - 1) |-> local[1][c] + local[2][c]]

\* local_bin_counts.reduceInto(m_density_array), after the parallel loop
GD_reduce ==
    /\ ~gd_reduced
    /\ gd_taken = 1 .. Len(gd_points)
    /\ \A t \in GDThreads : ~gd_work[t].busy
    /\ gd_density' = ReduceInto(gd_local, gd_width)
    /\ gd_reduced' = TRUE
    /\ UNCHANGED <<gd_width, gd_r2, gd_periodic, gd_points, gd_taken, gd_work,
                   gd_local, gd_store>>
    /\ GDFrame

NextDensity ==
    \/ \E t \in GDThreads, idx \in 1 .. MaxGDPts : GD_begin(t, idx)
    \/ \E t \in GDThreads : GD_iter(t)
    \/ GD_reduce

\* ========================================================================
\* constrainedLatticePoints (freud/kspace.pyx)
\* ========================================================================
\* linearly independent lattice vectors: a cell with edges a, b, c whose
\* second vector is sheared along the first by s
LatticeArgs ==
    { << <<a, 0, 0>>, <<s, b, 0>>, <<0, 0, c>> >> :
        a \in 1 .. MaxEdge, b \in 1 .. MaxEdge, c \in 1 .. MaxEdge,
        s \in 0 .. MaxShear }

\* the constraints AlignedBoxConstraint(R, -K, K, -K, K, -dK/2, dK/2) with
\* R = K * np.float32(np.sqrt(2)), as update_K_constraint builds them
ConstraintArgs ==
    { AlignedBoxConstraint(RadiusOf(K), K, dK) : K \in 1 .. MaxK, dK \in {1, 2} }

LatInitWith(v, c) ==
    /\ lat_v = v
    /\ lat_c = c
    /\ lat_points = {}
    /\ lat_done = FALSE

LatIdle == LatInitWith(<< <<1, 0, 0>>, <<0, 1, 0>>, <<0, 0, 1>> >>,
                       AlignedBoxConstraint(RadiusOf(1), 1, 1))

LatFrame == UNCHANGED <<computeVars, linkVars, cellVars, ftVars, sfVars, dbVars, anVars, gdVars, spVars>>

\* a call of constrainedLatticePoints(v1, v2, v3, constraint)
Lat_compute ==
    /\ ~lat_done
    /\ lat_points' = constrainedLatticePoints(lat_v[1], lat_v[2], lat_v[3], lat_c)
    /\ lat_done' = TRUE
    /\ UNCHANGED <<lat_v, lat_c>>
    /\ LatFrame

NextLattice == Lat_compute

\* ========================================================================
\* GaussianSpot (freud/kspace.pyx)
\* ========================================================================
\* The image extent is [0, dx * (shape[0] - 1)] x [0, dy * (shape[1] - 1)];
\* sigma and the spacings are whole numbers of one length unit, a centre is
\* given in halves of the grid spacing of its axis.

\* int(np.round(c)) for c = halves / 2: numpy rounds a half to the even side
RoundHalfEven(halves) ==
    LET q == halves \div 2
    IN  IF halves % 2 = 0 \/ q % 2 = 0 THEN q ELSE q + 1

\* nx = int((3. * self.sigma / self.dx) + 1): int() cuts the fraction off
HalfWidth_mut(sigma, d) == (3 * sigma) \div d

HalfWidth(sigma, d) == (3 * sigma) \div d + 1

\* GaussianSpot.set_xy: nx and ny, the index pairs of the sub-grid, and the
\* pairs left after the coordinates outside the extent are masked out
spot_set_xy(sigma, d, shape, xy) ==
    LET nx  == HalfWidth(sigma, d[1])
        ny  == HalfWidth(sigma, d[2])
        i   == RoundHalfEven(xy[1])
        j   == RoundHalfEven(xy[2])
        sub == ((i - nx) .. (i + nx)) \X ((j - ny) .. (j + ny))
    IN  [half |-> <<nx, ny>>,
         sub |-> sub,
         gridPoints |-> { g \in sub : /\ g[1] >= 0 /\ g[1] <= shape[1] - 1
                                      /\ g[2] >= 0 /\ g[2] <= shape[2] - 1 }]

\* GaussianSpot.__init__(shape, extent, sigma=sigma): ends with set_xy(0, 0)
SpotInitWith(sigma, d, shape) ==
    LET r == spot_set_xy(sigma, d, shape, <<0, 0>>)
    IN  /\ sp_sigma = sigma
        /\ sp_d = d
        /\ sp_shape = shape
        /\ sp_xy = <<0, 0>>
        /\ sp_half = r.half
        /\ sp_sub = r.sub
        /\ sp_gridPoints = r.gridPoints

SpotIdle == SpotInitWith(1, <<1, 1>>, <<2, 2>>)

SpotFrame == UNCHANGED <<computeVars, linkVars, cellVars, ftVars, sfVars, dbVars, anVars, gdVars, latVars>>

\* GaussianSpot.set_xy(x, y)
Spot_set_xy(xy) ==
    /\ xy[1] <= 2 * (sp_shape[1] - 1)
    /\ xy[2] <= 2 * (sp_shape[2] - 1)
    /\ LET r == spot_set_xy(sp_sigma, sp_d, sp_shape, xy)
       IN  /\ sp_xy' = xy
           /\ sp_half' = r.half
           /\ sp_sub' = r.sub
           /\ sp_gridPoints' = r.gridPoints
    /\ UNCHANGED <<sp_sigma, sp_d, sp_shape>>
    /\ SpotFrame

\* GaussianSpot.set_sigma(sigma): the sub-grid is rebuilt by the next set_xy
Spot_set_sigma(sigma) ==
    /\ sp_sigma' = sigma
    /\ UNCHANGED <<sp_d, sp_shape, sp_xy, sp_half, sp_sub, sp_gridPoints>>
    /\ SpotFrame

NextSpot ==
    \/ \E xy \in (0 .. 2 * (MaxShape - 1)) \X (0 .. 2 * (MaxShape - 1)) : Spot_set_xy(xy)
    \/ \E sigma \in 1 .. MaxSigma : Spot_set_sigma(sigma)

\* ========================================================================
\* Specifications
\* ========================================================================
InitCompute == ComputeInit /\ LinkIdle /\ CellIdle /\ FTIdle /\ SFIdle /\ DebyeIdle /\ AnIdle /\ GDIdle /\ LatIdle /\ SpotIdle

SpecCompute == InitCompute /\ [][NextCompute]_vars

InitLink == ComputeIdle /\ LinkInit /\ CellIdle /\ FTIdle /\ SFIdle /\ DebyeIdle /\ AnIdle /\ GDIdle /\ LatIdle /\ SpotIdle

SpecLink == InitLink /\ [][NextLink]_vars

\* the neighbour table alone, on every grid of up to MaxDim cells per axis
NextNbr ==
    \E cell \in 0 .. (MaxDim * MaxDim * MaxDim - 1) : GetCellNeighbors(cell)

InitNbr ==
    /\ \E g \in Grids(MaxDim, MaxDim * MaxDim * MaxDim) : LinkCell_ctor(g[1], g[2])
    /\ ComputeIdle
    /\ CellIdle
    /\ FTIdle
    /\ SpotIdle
    /\ LatIdle
    /\ GDIdle
    /\ AnIdle
    /\ DebyeIdle
    /\ SFIdle

SpecNbr == InitNbr /\ [][NextNbr]_vars

InitCell == ComputeIdle /\ LinkIdle /\ CellInit /\ FTIdle /\ SFIdle /\ DebyeIdle /\ AnIdle /\ GDIdle /\ LatIdle /\ SpotIdle

SpecCell == InitCell /\ [][NextCell]_vars

InitFT == ComputeIdle /\ LinkIdle /\ CellIdle /\ FTInit /\ SFIdle /\ DebyeIdle /\ AnIdle /\ GDIdle /\ LatIdle /\ SpotIdle

SpecFT == InitFT /\ [][NextFT]_vars

InitSF == ComputeIdle /\ LinkIdle /\ CellIdle /\ FTIdle /\ SFInit /\ DebyeIdle /\ AnIdle /\ GDIdle /\ LatIdle /\ SpotIdle

SpecSF == InitSF /\ [][NextSF]_vars

InitDebye == ComputeIdle /\ LinkIdle /\ CellIdle /\ FTIdle /\ SFIdle /\ DebyeInit /\ AnIdle /\ GDIdle /\ LatIdle /\ SpotIdle

SpecDebye == InitDebye /\ [][NextDebye]_vars

InitAnalyze == (\E g \in 0 .. MaxAG : \E S \in AGrids(g) : AnInitWith(g, S)) /\ ComputeIdle /\ LinkIdle /\ CellIdle /\ FTIdle /\ SFIdle /\ DebyeIdle /\ GDIdle /\ LatIdle /\ SpotIdle
SpecAnalyze == InitAnalyze /\ [][NextAnalyze]_vars

InitDensity ==
    /\ \E width \in 1 .. MaxWidth, periodic \in BOOLEAN :
          \E r2 \in R2Args(width), points \in GDPointLists(width) :
              GDInitWith(width, r2, periodic, points)
    /\ ComputeIdle /\ LinkIdle /\ CellIdle /\ FTIdle /\ SFIdle /\ DebyeIdle /\ AnIdle /\ LatIdle /\ SpotIdle
SpecDensity == InitDensity /\ [][NextDensity]_vars

InitLattice ==
    /\ \E v \in LatticeArgs, c \in ConstraintArgs : LatInitWith(v, c)
    /\ ComputeIdle /\ LinkIdle /\ CellIdle /\ FTIdle /\ SFIdle /\ DebyeIdle /\ AnIdle /\ GDIdle /\ SpotIdle
SpecLattice == InitLattice /\ [][NextLattice]_vars

InitSpot ==
    /\ \E sigma \in 1 .. MaxSigma, dx \in 1 .. MaxSpacing, dy \in 1 .. MaxSpacing :
          \E nx \in 2 .. MaxShape, ny \in 2 .. MaxShape :
              SpotInitWith(sigma, <<dx, dy>>, <<nx, ny>>)
    /\ ComputeIdle /\ LinkIdle /\ CellIdle /\ FTIdle /\ SFIdle /\ DebyeIdle /\ AnIdle /\ GDIdle /\ LatIdle
SpecSpot == InitSpot /\ [][NextSpot]_vars

\* ========================================================================
\* Claims
\* ========================================================================
\* ------------------------------------------------------------------------
\* Claims on the Compute lifecycle guard
\* ------------------------------------------------------------------------
IsAccess(e) == e.op \in {"property", "method"}

\* index of the most recent reset call among the first n calls (0: none)
RECURSIVE LastReset(_, _)
LastReset(h, n) ==
    IF n = 0 THEN 0
    ELSE IF h[n].op = "reset" THEN n ELSE LastReset(h, n - 1)

\* a compute call returned among the calls LastReset+1 .. n-1 of the history
ComputedBefore(h, n) ==
    \E k \in (LastReset(h, n - 1) + 1) .. (n - 1) :
        h[k].op = "compute" /\ h[k].out = "returned"

\* C1: an access to a guarded property or method fails with the state error
\* 'Property not computed. Call compute first.' exactly when no compute call
\* has returned since construction or since the most recent reset call, and
\* returns otherwise.
C1_GuardFollowsLifecycle ==
    \A n \in 1 .. Len(cmp_hist) :
        IsAccess(cmp_hist[n]) =>
            /\ cmp_hist[n].out \in {NotComputedError, "returned"}
            /\ (cmp_hist[n].out = NotComputedError) <=> ~ComputedBefore(cmp_hist, n)

\* an access failed right after construction, one succeeded after a compute,
\* and one failed again after the reset that followed
C1_Witness ==
    /\ Len(cmp_hist) >= 5
    /\ IsAccess(cmp_hist[5]) /\ cmp_hist[5].out = NotComputedError
    /\ IsAccess(cmp_hist[1]) /\ cmp_hist[1].out = NotComputedError
    /\ cmp_hist[2] = [op |-> "compute", out |-> "returned"]
    /\ IsAccess(cmp_hist[3]) /\ cmp_hist[3].out = "returned"
    /\ cmp_hist[4].op = "reset"

\* the call the last step of the Compute object made
LastCall == cmp_hist'[Len(cmp_hist')]

\* C30: when the wrapped compute function raises, the flag keeps the value it
\* had before the call; when a reset is called the flag is false afterwards,
\* also when the wrapped reset function raises.
C30_FlagOnFailure ==
    [][ /\ LastCall = [op |-> "compute", out |-> "raised"]
             => called_compute' = called_compute
        /\ LastCall.op = "reset" => ~called_compute'
      ]_vars

\* results of an earlier compute stayed readable after a compute that raised,
\* and were not readable any more after a reset that raised
C30_Witness ==
    /\ Len(cmp_hist) >= 5
    /\ cmp_hist[1] = [op |-> "compute", out |-> "returned"]
    /\ cmp_hist[2] = [op |-> "compute", out |-> "raised"]
    /\ IsAccess(cmp_hist[3]) /\ cmp_hist[3].out = "returned"
    /\ cmp_hist[4] = [op |-> "reset", out |-> "raised"]
    /\ IsAccess(cmp_hist[5]) /\ cmp_hist[5].out = NotComputedError
    /\ ~called_compute

\* ------------------------------------------------------------------------
\* Claims on the link-cell list
\* ------------------------------------------------------------------------

NoRepeat(q) == \A a, b \in 1 .. Len(q) : a # b => q[a] # q[b]

\* the particle indices the documented loop gets from cursor c, which has
\* made no call yet (fuel bounds the walk by the number of slots)
RECURSIVE WalkFrom(_, _)
WalkFrom(c, fuel) ==
    IF fuel = 0 \/ c.cur_idx \notin DOMAIN c.cell_list THEN <<>>
    ELSE LET r == CHOOSE x \in ReadCellList(c, c.cur_idx) : TRUE
             d == IteratorLinkCell_next(c, r)
         IN IF atEnd(d) THEN <<>> ELSE <<d.cur_idx>> \o WalkFrom(d, fuel - 1)

WalkCell(cell) ==
    WalkFrom(IteratorLinkCell(m_cell_list, m_Np, getNumCells(m_dim), cell, "cpp"),
             m_Np + getNumCells(m_dim))

Cells == 0 .. (getNumCells(m_dim) - 1)

\* C2: after computeCellList every particle index in [0, Np) is in exactly
\* one cell's linked list, no list holds anything else or holds an index
\* twice, and the cursor walks of all cells together return each index in
\* [0, Np) exactly once.
C2_EveryParticleOnce ==
    m_cell_list # NullList =>
        /\ \A i \in 0 .. (m_Np - 1) :
              Cardinality({c \in Cells : i \in SeqRange(WalkCell(c))}) = 1
        /\ \A c \in Cells :
              /\ SeqRange(WalkCell(c)) \subseteq 0 .. (m_Np - 1)
              /\ NoRepeat(WalkCell(c))
        /\ sw_cell = getNumCells(m_dim) =>
              /\ Len(sw_yield) = m_Np
              /\ SeqRange(sw_yield) = 0 .. (m_Np - 1)

\* all cells of a grid of several cells were walked by the cursor, and two
\* particles shared a cell
C2_Witness ==
    /\ m_cell_list # NullList
    /\ getNumCells(m_dim) >= 3
    /\ sw_cell = getNumCells(m_dim)
    /\ m_Np = MaxNp
    /\ \E c \in Cells : Len(WalkCell(c)) >= 2

\* C3: the neighbour relation of a periodic grid is symmetric and reflexive:
\* B is in getCellNeighbors(A) iff A is in getCellNeighbors(B), and A is in
\* getCellNeighbors(A).
C3_NeighborsSymmetric ==
    \A A, B \in Cells :
        /\ (B \in SeqRange(getCellNeighbors(m_cell_neighbors, A)))
              <=> (A \in SeqRange(getCellNeighbors(m_cell_neighbors, B)))
        /\ A \in SeqRange(getCellNeighbors(m_cell_neighbors, A))

\* getCellNeighbors was called on a 3D grid with an axis of one cell, an axis
\* of two cells and an axis of four, and the cell has a non-neighbour
C3_Witness ==
    /\ ~m_is2D
    /\ {m_dim[1], m_dim[2], m_dim[3]} = {1, 2, 4}
    /\ Len(nb_result.list) = 27
    /\ \E B \in Cells : B \notin SeqRange(nb_result.list)

\* C4 (as claimed): every nextPy call on a cursor either returns a particle
\* index smaller than Np or raises StopIteration, and reads the cell-list
\* array at an index in [0, Np + Nc), also when the cursor is already at the
\* terminator.
C4_NextPyChecked ==
    it.mode = "py" =>
        \A n \in 1 .. Len(it_log) :
            /\ it_log[n].read \in 0 .. (it.Np + it.Nc - 1)
            /\ \/ it_log[n].out = "StopIteration"
               \/ it_log[n].out = "value" /\ it_log[n].val \in 0 .. (it.Np - 1)

\* C21: after computeCellList, the walk of any cell's list from its head slot
\* yields particle indices in strictly decreasing order (the most recently
\* inserted first), every one smaller than Np, and ends at the terminator; the
\* head slot of a cell without particles holds the terminator.
C21_WalkNewestFirst ==
    m_cell_list # NullList =>
        \A c \in Cells :
            LET w    == WalkCell(c)
                head == m_Np + c
                last == IF w = <<>> THEN head ELSE w[Len(w)]
            IN  /\ \A n \in 1 .. Len(w) : w[n] \in 0 .. (m_Np - 1)
                /\ \A n \in 1 .. (Len(w) - 1) : w[n] > w[n + 1]
                /\ m_cell_list[last] = LINK_CELL_TERMINATOR
                /\ (w = <<>>) <=> (m_cell_list[head] = LINK_CELL_TERMINATOR)

\* a list was built in which one cell holds particles 0 and 1, walked as 1
\* then 0, and another cell holds none
C21_Witness ==
    /\ m_cell_list # NullList
    /\ m_Np = 2
    /\ \E c \in Cells : WalkCell(c) = <<1, 0>>
    /\ \E c \in Cells : m_cell_list[m_Np + c] = LINK_CELL_TERMINATOR

\* the particle indices linked from a slot of the built list, read off the
\* array itself (fuel bounds the chain by the number of particles)
RECURSIVE Members(_, _)
Members(slot, fuel) ==
    IF fuel = 0 \/ m_cell_list[slot] = LINK_CELL_TERMINATOR THEN {}
    ELSE {m_cell_list[slot]} \cup Members(m_cell_list[slot], fuel - 1)

\* C22: on a built list the documented loop
\* 'for (i = it.next(); !it.atEnd(); i = it.next())' terminates for any cell:
\* it calls next() exactly (particles of the cell) + 1 times, runs its body
\* once per particle of the cell (never for an empty cell), and every next()
\* reads the array at an index in [0, Np + Nc), never at the terminator.
C22_LoopTerminates ==
    it.mode = "cpp" =>
        LET inCell == Members(it.Np + it.cell, it.Np)
            count  == Cardinality(inCell)
            values == {n \in 1 .. Len(it_log) : it_log[n].out = "value"}
        IN  /\ Len(it_log) <= count + 1
            /\ \A n \in 1 .. Len(it_log) :
                  /\ it_log[n].read \in 0 .. (it.Np + it.Nc - 1)
                  /\ it_log[n].read # LINK_CELL_TERMINATOR
                  /\ it_log[n].out \in {"value", "end"}
            /\ ~atEnd(it) => it.cur_idx \in 0 .. (it.Np + it.Nc - 1)
            /\ atEnd(it) =>
                  /\ Len(it_log) = count + 1
                  /\ Cardinality(values) = count
                  /\ {it_log[n].val : n \in values} = inCell

\* the loop has ended on a cell of two particles after three calls of next(),
\* and before that on a cell without particles
C22_Witness ==
    /\ it.mode = "cpp"
    /\ atEnd(it)
    /\ Len(it_log) = 3
    /\ it_log[1].out = "value" /\ it_log[2].out = "value" /\ it_log[3].out = "end"
    /\ it.cell > 0
    /\ Len(sw_yield) = 2

\* ------------------------------------------------------------------------
\* SingleCell3D: particle types
\* ------------------------------------------------------------------------
\* list with its n-th entry taken out
Without(list, n) == SubSeq(list, 1, n - 1) \o SubSeq(list, n + 1, Len(list))

\* C5: remove_ptype(name) of a registered type returns without error;
\* afterwards the name is gone, the position, orientation, form-factor and
\* every per-parameter list have lost exactly the entry of that type, the
\* type is not active, and the entries of the other types are untouched.
C5_RemovePurgesType ==
    [][ (cell_out'.op = "remove_ptype" /\ cell_out'.name \in SeqRange(ptype_name))
        => LET n == ListIndex(ptype_name, cell_out'.name)
           IN  /\ cell_out'.err = "ok"
               /\ ptype_name' = Without(ptype_name, n)
               /\ ptype_position' = Without(ptype_position, n)
               /\ ptype_orientation' = Without(ptype_orientation, n)
               /\ ptype_ff' = Without(ptype_ff, n)
               /\ \A p \in SeqRange(param_keys) :
                     ptype_param'[p] = Without(ptype_param[p], n)
               /\ \A m \in 1 .. Len(ptype_name') :
                     ((m - 1) \in active_types')
                       <=> ((ListIndex(ptype_name, ptype_name'[m]) - 1)
                              \in active_types \ {n - 1})
      ]_vars

\* C8: add_ptype(name) with a registered name raises the duplicate-name
\* error and leaves every list and the active set as they were; with a new
\* name it appends one entry to the name, position, orientation and
\* form-factor lists and one placeholder to every per-parameter list, and
\* the new type is not active.
C8_AddPtype ==
    [][ cell_out'.op = "add_ptype"
        => IF cell_out'.name \in SeqRange(ptype_name)
           THEN /\ cell_out'.err = "ValueError"
                /\ UNCHANGED <<ptype_name, ptype_position, ptype_orientation,
                               ptype_ff, param_keys, ptype_param, active_types>>
           ELSE LET n == Len(ptype_name) + 1
                IN  /\ cell_out'.err = "ok"
                    /\ ptype_name' = Append(ptype_name, cell_out'.name)
                    /\ Len(ptype_position') = Len(ptype_position) + 1
                    /\ SubSeq(ptype_position', 1, Len(ptype_position)) = ptype_position
                    /\ Len(ptype_orientation') = Len(ptype_orientation) + 1
                    /\ SubSeq(ptype_orientation', 1, Len(ptype_orientation))
                          = ptype_orientation
                    /\ Len(ptype_ff') = Len(ptype_ff) + 1
                    /\ SubSeq(ptype_ff', 1, Len(ptype_ff)) = ptype_ff
                    /\ ptype_ff'[Len(ptype_ff')] = NoFF
                    /\ param_keys' = param_keys
                    /\ \A p \in SeqRange(param_keys) :
                          /\ Len(ptype_param'[p]) = Len(ptype_param[p]) + 1
                          /\ SubSeq(ptype_param'[p], 1, Len(ptype_param[p]))
                                = ptype_param[p]
                          /\ ptype_param'[p][Len(ptype_param'[p])] = NoneVal
                    /\ active_types' = active_types
                    /\ (n - 1) \notin active_types'
      ]_vars

\* a second type was added after a parameter was stored for the first:
\* the parameter list got its placeholder
C8_Witness ==
    /\ cell_out.op = "add_ptype"
    /\ cell_out.err = "ok"
    /\ Len(ptype_name) = 2
    /\ active_types = {0}
    /\ \E p \in SeqRange(param_keys) :
          /\ Len(ptype_param[p]) = 2
          /\ ptype_param[p][1] # NoneVal
          /\ ptype_param[p][2] = NoneVal

\* C26: after any sequence of calls on a SingleCell3D object, failed ones
\* included, ptype_name, ptype_position, ptype_orientation and ptype_ff have
\* one length, every list of ptype_param has that length, the names are
\* pairwise distinct and every active index is below that length.
C26_ListsStayParallel ==
    LET n == Len(ptype_name)
    IN  /\ Len(ptype_position) = n
        /\ Len(ptype_orientation) = n
        /\ Len(ptype_ff) = n
        /\ \A p \in SeqRange(param_keys) : Len(ptype_param[p]) = n
        /\ \A a, b \in 1 .. n : ptype_name[a] = ptype_name[b] => a = b
        /\ \A i \in active_types : i >= 0 /\ i < n

\* C29: a set_param call that ends with the missing-parameter error (the
\* form factor of the type does not recognise the name) adds no key to
\* ptype_param, changes no stored value and leaves FT_valid alone.
C29_FailedSetParamStoresNothing ==
    [][(cell_out'.op = "set_param" /\ cell_out'.err = "KeyError" /\ cell_ops' = cell_ops + 1) =>
          /\ param_keys' = param_keys
          /\ ptype_param' = ptype_param
          /\ FT_valid' = FT_valid]_vars

\* ------------------------------------------------------------------------
\* SingleCell3D: validity flags
\* ------------------------------------------------------------------------
\* C6: after set_ndiv or set_dK returns, the K-constraint flag, the K-points
\* flag and the FT flag are all false.
C6_GridChangeInvalidatesAll ==
    cell_out.op \in {"set_ndiv", "set_dK"}
        => (~K_constraint_valid /\ ~Kpoints_valid /\ ~FT_valid)

\* C7: a calculate() that fails leaves FT and FT_valid as they were, and
\* FT_valid is true after a calculate only when the call returned.
C7_FailedCalculateKeepsFT ==
    [][ cell_out'.op = "calculate"
        => /\ (cell_out'.err # "ok" => (FT' = FT /\ FT_valid' = FT_valid))
           /\ (FT_valid' => cell_out'.err = "ok")
      ]_vars

\* C16: remove_ptype(name) of a type that is active at the time of the call
\* leaves FT_valid false; of an inactive type it leaves FT_valid unchanged.
C16_RemoveInvalidatesFT ==
    [][ (cell_out'.op = "remove_ptype" /\ cell_out'.name \in SeqRange(ptype_name))
        => LET i == ListIndex(ptype_name, cell_out'.name) - 1
           IN  IF i \in active_types THEN ~FT_valid'
               ELSE FT_valid' = FT_valid
      ]_vars

\* C17: set_scale(s), in every registry state including one where a
\* registered type has no form factor yet, returns with the stored global
\* scale equal to s, the scale of every assigned form factor equal to s, and
\* bases_valid false.
C17_SetScalePropagates ==
    [][ \A s \in ScaleArgs :
          SC_set_scale(s)
            => /\ cell_out'.err = "ok"
               /\ sc_scale' = Float32(s)
               /\ \A n \in 1 .. Len(ptype_ff') :
                     ptype_ff'[n].kind # "None" => ptype_ff'[n].scale = Float32(s)
               /\ ~bases_valid'
      ]_vars

\* C18: each recompute step sets the flag of its own stage true and the flag
\* of the next stage false (update_bases: bases_valid, K_constraint_valid;
\* update_K_constraint: K_constraint_valid, Kpoints_valid; update_Kpoints:
\* Kpoints_valid, FT_valid); right after construction bases_valid,
\* K_constraint_valid and Kpoints_valid are true and FT_valid is false.
C18_UpdateChain ==
    [][ /\ cell_out.op = "init"
             => (bases_valid /\ K_constraint_valid /\ Kpoints_valid /\ ~FT_valid)
        /\ cell_out'.op = "update_bases"
             => (bases_valid' /\ ~K_constraint_valid')
        /\ cell_out'.op = "update_K_constraint"
             => (K_constraint_valid' /\ ~Kpoints_valid')
        /\ cell_out'.op = "update_Kpoints"
             => (Kpoints_valid' /\ ~FT_valid')
      ]_vars

\* C19: calculate() recomputes whatever the four validity flags are: it
\* returns an array whose length is the current K-point count and whose value
\* is the sum of the results of exactly the active types (all zeros when no
\* type is active), and leaves FT_valid true.
C19_CalculateAlwaysReturns ==
    [][ cell_out'.op = "calculate"
        => /\ cell_out'.err = "ok"
           /\ FT'.len = Cardinality(Kpoints')
           /\ SeqRange(FT'.terms) = active_types'
           /\ Len(FT'.terms) = Cardinality(active_types')
           /\ FT_valid'
      ]_vars

\* C20: set_active(name) on an inactive type adds it to the active set and
\* sets FT_valid false, on an active type it changes neither the active set
\* nor any flag; set_inactive(name) removes an active type and sets FT_valid
\* false and changes nothing for an inactive type.  Neither changes
\* bases_valid, K_constraint_valid or Kpoints_valid.
C20_ActivationTransitions ==
    [][ (cell_out'.op \in {"set_active", "set_inactive"}
           /\ cell_out'.name \in SeqRange(ptype_name))
        => LET i  == ListIndex(ptype_name, cell_out'.name) - 1
               on == cell_out'.op = "set_active"
           IN  /\ cell_out'.err = "ok"
               /\ active_types' = IF on THEN active_types \cup {i}
                                  ELSE active_types \ {i}
               /\ IF (i \in active_types) = on
                  THEN FT_valid' = FT_valid
                  ELSE ~FT_valid'
               /\ UNCHANGED <<bases_valid, K_constraint_valid, Kpoints_valid>>
      ]_vars

\* set_active has just activated a type whose absence the valid transform
\* was computed with: the type is active and FT_valid is false again
C20_Witness ==
    /\ cell_out.op = "set_active"
    /\ cell_out.err = "ok"
    /\ active_types # {}
    /\ FT # NoFT
    /\ FT.terms = <<>>
    /\ ~FT_valid

\* C27: in every reachable state of a SingleCell3D object the flags are
\* closed along the chain: FT_valid implies Kpoints_valid, Kpoints_valid
\* implies K_constraint_valid, K_constraint_valid implies bases_valid.
C27_FlagsClosedAlongChain ==
    /\ FT_valid => Kpoints_valid
    /\ Kpoints_valid => K_constraint_valid
    /\ K_constraint_valid => bases_valid

\* ------------------------------------------------------------------------
\* Form-factor objects
\* ------------------------------------------------------------------------
\* C9: set_parambyname and get_parambyname with a name outside the
\* parameter map raise the missing-parameter error and change nothing;
\* set_parambyname with a registered name succeeds, and a get_parambyname of
\* the same name right after it returns the value that was set.
C9_ParamByNameRoundTrip ==
    [][ /\ (ft_out'.op \in {"set_parambyname", "get_parambyname"}
            => IF ft_out'.name \notin set_param_map(ft_obj.kind)
               THEN ft_out'.err = "KeyError" /\ ft_obj' = ft_obj
               ELSE ft_out'.op = "set_parambyname" => ft_out'.err = "ok")
        /\ ((/\ ft_out'.op = "get_parambyname"
             /\ ft_out.op = "set_parambyname"
             /\ ft_out.err = "ok"
             /\ ft_out.name = ft_out'.name)
            => (ft_out'.err = "ok" /\ ft_out'.ret = ft_out.value))
      ]_vars

\* C10: set_rq with a position or an orientation of a rank other than 1 or
\* 2 raises, forwards nothing to the native object and leaves the stored
\* position and orientation as they were; a single 3-vector or 4-vector is
\* stored as an array of one row.
C10_SetRqRejectsBadRank ==
    [][ ft_out'.op = "set_rq"
        => IF Len(ft_out'.r) \notin {1, 2} \/ Len(ft_out'.q) \notin {1, 2}
           THEN /\ ft_out'.err # "ok"
                /\ ft_obj' = ft_obj
           ELSE /\ (Len(ft_out'.r) = 1 => ft_obj'.position = <<1, 3>>)
                /\ (Len(ft_out'.q) = 1 => ft_obj'.orientation = <<1, 4>>)
      ]_vars

\* ------------------------------------------------------------------------
\* SFactor3DPoints
\* ------------------------------------------------------------------------
\* C11: getSComplex() returns without error an array equal to the internal
\* complex field (and the array is a copy of it).
C11_GetSComplexReturnsField ==
    sf_out.op = "getSComplex"
        => (sf_out.err = "ok" /\ sf_out.ret = sf_s_complex)

\* the element of the complex field at the centre index (g, g, g)
Centre == sf_s_complex.num[<<sf_g, sf_g, sf_g>>]

\* C14: after compute(points) with a non-empty point set, whatever was
\* computed before, the complex field at the centre index has magnitude 1.
C14_CentreMagnitudeOne ==
    (sf_out.op = "compute" /\ sf_out.n > 0)
        => /\ sf_s_complex.den > 0
           /\ Centre[1] * Centre[1] + Centre[2] * Centre[2]
                = sf_s_complex.den * sf_s_complex.den

\* a later compute of two points on a 3 x 3 x 3 grid, with a cell where the
\* two contributions cancel
C14_Witness ==
    /\ sf_out.op = "compute"
    /\ sf_out.n = 2
    /\ sf_g = 1
    /\ sf_ops >= 2
    /\ sf_s_complex.den = 2
    /\ \E idx \in GridIndex(sf_g) : sf_s_complex.num[idx] = <<0, 0>>

\* ------------------------------------------------------------------------
\* StaticStructureFactorDebye
\* ------------------------------------------------------------------------
\* C12: the constructor succeeds if and only if bins # 0, k_max > 0,
\* k_min >= 0 and k_max > k_min all hold; otherwise it throws the
\* invalid-argument error and no object is created.
C12_CtorValidates ==
    db_out.op = "ctor"
        => LET valid == /\ db_out.bins # 0
                        /\ FGt(db_out.k_max, Real(0))
                        /\ FGe(db_out.k_min, Real(0))
                        /\ FGt(db_out.k_max, db_out.k_min)
           IN  /\ (db_out.err = "ok") <=> valid
               /\ ~valid => ~db_made

\* the sum over the accumulated frames of their S_k in bin k
RECURSIVE SumFrames(_, _)
SumFrames(frames, k) ==
    IF frames = <<>> THEN Real(0)
    ELSE FAdd(Head(frames)[k], SumFrames(Tail(frames), k))

\* C13: after F >= 1 accumulate calls and reduce(), every bin of S(k) is
\* the sum of the F per-frame contributions divided by F, with no division
\* for F = 1 (a sum of contributions that are NaN is NaN, and so is S(k)).
C13_ReduceAverages ==
    (db_out.op = "reduce" /\ db_frame_counter >= 1)
        => \A k \in 1 .. db_axis.bins :
              /\ db_structure_factor[k].den > 0
              /\ db_structure_factor[k].num.nan = SumFrames(db_frames, k).nan
              /\ db_structure_factor[k].num.v * db_frame_counter
                   = SumFrames(db_frames, k).v * db_structure_factor[k].den
              /\ db_frame_counter = 1 => db_structure_factor[k].den = 1

\* the same frame accumulated twice, its bins shared between two threads,
\* then reduced: S(k) is that frame's S_k
C13_Witness ==
    /\ db_out.op = "reduce"
    /\ db_frame_counter = 2
    /\ db_axis.bins = 2
    /\ db_frames[1] = db_frames[2]
    /\ db_frames[1][1] # db_frames[1][2]
    /\ \E k \in 1 .. 2 : db_local[1][k] # Real(0)
    /\ \E k \in 1 .. 2 : db_local[2][k] # Real(0)
    /\ \A k \in 1 .. 2 :
          /\ db_structure_factor[k].den = 2
          /\ ~db_frames[1][k].nan
          /\ db_structure_factor[k].num = Real(2 * db_frames[1][k].v)

\* ------------------------------------------------------------------------
\* C15: for a cubic grid of odd side 2g+1 and any cut, getPeakList(cut)
\* returns exactly one (triple, value) pair for each cell with S > cut and
\* none for the other cells; each triple is the cell's array index minus g on
\* every axis and its value is S at that cell, so a grid with exactly one
\* cell above cut yields exactly one pair; getPeakDegeneracy(cut) lists each
\* such value under the key equal to the sum of squares of its triple.
\* ------------------------------------------------------------------------
\* the cells of the wrapped grid with S strictly greater than cut
PeakCells(cut) == {c \in ACells(2 * an_g + 1) : an_S[c] > cut}

C15_PeakListExact ==
    /\ an_out.op = "getPeakList"
        => LET q == an_out.q_list
               p == an_out.peak_list
               peaks == PeakCells(an_out.cut)
           IN  /\ Len(p) = Len(q)
               /\ Len(q) = Cardinality(peaks)
               /\ \A c \in peaks : \E i \in 1 .. Len(q) : q[i] = Centered(c, an_g)
               /\ \A i \in 1 .. Len(q) :
                     \E c \in peaks : q[i] = Centered(c, an_g) /\ p[i] = an_S[c]
               /\ Cardinality(peaks) = 1 => Len(q) = 1
    /\ an_out.op = "getPeakDegeneracy"
        => LET d == an_out.deg
               peaks == PeakCells(an_out.cut)
           IN  /\ DOMAIN d = {Qsq(Centered(c, an_g)) : c \in peaks}
               /\ \A k \in DOMAIN d : \A v \in SValues :
                     Cardinality({j \in 1 .. Len(d[k]) : d[k][j] = v})
                         = Cardinality({c \in peaks :
                               Qsq(Centered(c, an_g)) = k /\ an_S[c] = v})

\* getPeakList has returned the single pair of a grid of side 3 whose only
\* cell above the cut is off centre, next to a cell that equals the cut
C15_Witness ==
    /\ an_out.op = "getPeakList"
    /\ an_g = 1
    /\ Cardinality(PeakCells(an_out.cut)) = 1
    /\ \E c \in ACells(3) : an_S[c] = an_out.cut /\ an_out.cut > 0
    /\ Len(an_out.q_list) = 1
    /\ an_out.q_list[1] # <<0, 0, 0>>
    /\ an_out.peak_list[1] > an_out.cut

\* ------------------------------------------------------------------------
\* GaussianDensity
\* ------------------------------------------------------------------------
\* C23: on a periodic axis, for every point and every offset cell index i in
\* [home - bin_cut, home + bin_cut], also when bin_cut exceeds the grid width,
\* the index the contribution is stored at lies in [0, width) and is congruent
\* to i modulo width: it is the periodic image of cell i.
C23_StoredAtPeriodicImage ==
    (gd_periodic /\ gd_store.any)
        => /\ gd_store.ni \in 0 .. (gd_width - 1)
           /\ (gd_store.ni - gd_store.i) % gd_width = 0

\* what the passes lo .. hi of the loop over i add to cell c for a point in
\* cell bin_x, run one after the other
RECURSIVE Contribution(_, _, _, _)
Contribution(bin_x, lo, hi, c) ==
    IF lo > hi THEN 0
    ELSE LET delta == BoxWrap(lo - bin_x, gd_width, gd_periodic)
             hit   == /\ gd_periodic \/ (lo >= 0 /\ lo < gd_width)
                      /\ 4 * delta * delta < gd_r2 * gd_r2
                      /\ StoreIndex(lo, gd_width) = c
         IN  (IF hit THEN Gaussian(delta * delta) ELSE 0)
                 + Contribution(bin_x, lo + 1, hi, c)

\* what the passes made so far for the points of the set todo add to cell c: a
\* point a thread is still at counts up to the pass before its loop index
RECURSIVE MadeSoFar(_, _)
MadeSoFar(todo, c) ==
    IF todo = {} THEN 0
    ELSE LET idx   == CHOOSE x \in todo : TRUE
             bin_x == gd_points[idx]
             at    == {t \in GDThreads : gd_work[t].busy /\ gd_work[t].idx = idx}
             hi    == IF at = {} THEN bin_x + BinCut(gd_r2)
                      ELSE gd_work[CHOOSE t \in at : TRUE].i - 1
         IN  Contribution(bin_x, bin_x - BinCut(gd_r2), hi, c)
                 + MadeSoFar(todo \ {idx}, c)

\* C24: the density grid equals, cell by cell, the sum over all points of the
\* point's kernel contributions to the cell, for every partition of the
\* points among the worker threads and every interleaving of them: no pass
\* of any thread is lost from the local grids, and the reduction adds the
\* local grids.
C24_DensityIsSum ==
    \A c \in 0 .. (gd_width - 1) :
        /\ gd_local[1][c] + gd_local[2][c] = MadeSoFar(gd_taken, c)
        /\ gd_reduced => gd_density[c] = MadeSoFar(1 .. Len(gd_points), c)

\* the grid was reduced after each thread had stored contributions of a point
\* of its own, with r_max beyond the box length
C24_Witness ==
    /\ gd_reduced
    /\ Len(gd_points) = 2
    /\ gd_width >= 2
    /\ BinCut(gd_r2) > gd_width
    /\ \A t \in GDThreads : \E c \in 0 .. (gd_width - 1) : gd_local[t][c] > 0
    /\ \E c \in 0 .. (gd_width - 1) : gd_density[c] > gd_local[1][c]

\* ------------------------------------------------------------------------
\* constrainedLatticePoints
\* ------------------------------------------------------------------------
\* C28: for linearly independent lattice vectors v1, v2, v3, not assumed to
\* be a reduced basis, constrainedLatticePoints returns every lattice vector
\* h*v1 + k*v2 + l*v3 that satisfies the constraint (none has an index
\* outside the enumerated range), and every vector it returns satisfies the
\* constraint.
C28_AllLatticePoints ==
    lat_done =>
        /\ \A h, k, l \in (-MaxIndex) .. MaxIndex :
              LET v == Combo(h, k, l, lat_v[1], lat_v[2], lat_v[3])
              IN  satisfies(lat_c, v) => v \in lat_points
        /\ \A v \in lat_points : satisfies(lat_c, v)

\* ------------------------------------------------------------------------
\* Claims on GaussianSpot
\* ------------------------------------------------------------------------

\* the largest whole number not above 3 * sigma / d
FloorRatio(sigma, d) ==
    CHOOSE n \in 0 .. 3 * sigma : n * d <= 3 * sigma /\ 3 * sigma < (n + 1) * d

\* the smallest whole number not below 3 * sigma / d
CeilRatio(sigma, d) ==
    CHOOSE n \in 0 .. 3 * sigma : (n - 1) * d < 3 * sigma /\ 3 * sigma <= n * d

\* the sub-grid of half-widths nx and ny around the rounded centre
SubGridAround(xy, nx, ny) ==
    LET i == RoundHalfEven(xy[1])
        j == RoundHalfEven(xy[2])
    IN  ((i - nx) .. (i + nx)) \X ((j - ny) .. (j + ny))

\* C25 (as stated): a set_xy call builds, before masking, the sub-grid of
\* half-width ceil(3 * sigma / spacing) + 1 on each axis around the rounded
\* centre, for every positive sigma and spacing, whole ratio or not.
C25_HalfWidthCeilPlusOne ==
    [][sp_sigma' = sp_sigma =>
          /\ sp_half' = <<CeilRatio(sp_sigma, sp_d[1]) + 1, CeilRatio(sp_sigma, sp_d[2]) + 1>>
          /\ sp_sub' = SubGridAround(sp_xy', sp_half'[1], sp_half'[2])]_vars

\* C25 (amended): a set_xy call builds, before masking, the sub-grid of
\* half-width floor(3 * sigma / spacing) + 1 on each axis around the rounded
\* centre; this is ceil(3 * sigma / spacing) + 1 only when the ratio is whole,
\* and one less otherwise.
C25_HalfWidthFloorPlusOne ==
    [][sp_sigma' = sp_sigma =>
          /\ sp_half' = <<FloorRatio(sp_sigma, sp_d[1]) + 1, FloorRatio(sp_sigma, sp_d[2]) + 1>>
          /\ sp_sub' = SubGridAround(sp_xy', sp_half'[1], sp_half'[2])
          /\ \A a \in 1 .. 2 :
                sp_half'[a] = IF (3 * sp_sigma) % sp_d[a] = 0
                              THEN CeilRatio(sp_sigma, sp_d[a]) + 1
                              ELSE CeilRatio(sp_sigma, sp_d[a])]_vars

\* a set_xy call away from the origin has built a sub-grid for a ratio that
\* is not whole on the first axis and whole on the second
C25_Witness ==
    /\ sp_xy # <<0, 0>>
    /\ (3 * sp_sigma) % sp_d[1] # 0
    /\ (3 * sp_sigma) % sp_d[2] = 0
    /\ sp_half = <<FloorRatio(sp_sigma, sp_d[1]) + 1, CeilRatio(sp_sigma, sp_d[2]) + 1>>
    /\ sp_sub = SubGridAround(sp_xy, sp_half[1], sp_half[2])

====
